---------------------------- MODULE Spec2Model ----------------------------
(***************************************************************************)
(* OpenVISA: session registry, resource parser, transport factory and the  *)
(* wire-level transports (VXI-11, HiSLIP), modelled from the C sources.    *)
(*                                                                         *)
(* Resource strings are sequences of one-character strings; the C string   *)
(* terminator is the character NUL, read at every index past the end.      *)
(* 32-bit counters that may wrap (the VXI-11 xid) are kept as pairs of     *)
(* 16-bit halves <<hi, lo>>.                                               *)
(***************************************************************************)
EXTENDS Integers, Sequences, FiniteSets, TLC

(***************************************************************************)
(* Bounds of the model                                                     *)
(***************************************************************************)
\* slots of the session table (OV_MAX_SESSIONS scaled down)
MaxSessions == 2
\* slots of the find-list table (OV_MAX_FIND_LISTS scaled down)
MaxFindLists == 1
\* allocations are explored while nextHandle <= MaxHandle
MaxHandle == 3
\* largest byte count passed to a transport read or write
MaxCount == 2
\* largest length a peer claims or delivers in one reply
MaxPeerLen == 3
\* RPC calls explored on one VXI-11 transport instance
MaxCalls == 4
\* HiSLIP writes explored on one transport instance
MaxWrites == 2
\* messages a HiSLIP peer queues for one read
MaxMsgs == 2

\* Status codes (visa.h) and interface kinds (session.h) are the strings of
\* their C names: "VI_SUCCESS", "VI_ERROR_TMO", ... and "TCPIP", "USB", ...

(***************************************************************************)
(* Characters and C string helpers                                         *)
(***************************************************************************)
NUL == ""

Digits == <<"0", "1", "2", "3", "4", "5", "6", "7", "8", "9">>
UpperHex == <<"A", "B", "C", "D", "E", "F">>
LowerHex == <<"a", "b", "c", "d", "e", "f">>
Uppers == <<"A", "B", "C", "D", "E", "F", "G", "H", "I", "J", "K", "L", "M",
            "N", "O", "P", "Q", "R", "S", "T", "U", "V", "W", "X", "Y", "Z">>
Lowers == <<"a", "b", "c", "d", "e", "f", "g", "h", "i", "j", "k", "l", "m",
            "n", "o", "p", "q", "r", "s", "t", "u", "v", "w", "x", "y", "z">>

IndexIn(seq, c) ==
    IF \E k \in 1..Len(seq) : seq[k] = c
    THEN CHOOSE k \in 1..Len(seq) : seq[k] = c
    ELSE 0

tolower(c) == IF IndexIn(Uppers, c) # 0 THEN Lowers[IndexIn(Uppers, c)] ELSE c

IsDigit(c) == IndexIn(Digits, c) # 0
DigitVal(c) == IndexIn(Digits, c) - 1

\* the character at p, NUL past the end of the string
At(s, p) == IF p >= 1 /\ p <= Len(s) THEN s[p] ELSE NUL

starts_with_ci(s, p, prefix) ==
    \A k \in 1..Len(prefix) : tolower(At(s, p + k - 1)) = tolower(prefix[k])

\* strncmp(p, "::", 2) == 0
IsSep(s, p) == At(s, p) = ":" /\ At(s, p + 1) = ":"

RECURSIVE SkipDigits(_, _)
SkipDigits(s, p) == IF IsDigit(At(s, p)) THEN SkipDigits(s, p + 1) ELSE p

\* first position at or after p holding NUL or the start of "::"
RECURSIVE FieldEnd(_, _)
FieldEnd(s, p) ==
    IF At(s, p) = NUL \/ IsSep(s, p) THEN p ELSE FieldEnd(s, p + 1)

Field(s, p) == SubSeq(s, p, FieldEnd(s, p) - 1)

RECURSIVE DecValue(_, _, _)
DecValue(s, p, acc) ==
    IF IsDigit(At(s, p)) THEN DecValue(s, p + 1, acc * 10 + DigitVal(At(s, p)))
    ELSE acc

RECURSIVE SkipSpaces(_, _)
SkipSpaces(s, p) == IF At(s, p) = " " THEN SkipSpaces(s, p + 1) ELSE p

\* atoi: leading blanks, optional sign, decimal digits
atoi(s, p) ==
    LET q == SkipSpaces(s, p)
    IN  IF At(s, q) = "-" THEN 0 - DecValue(s, q + 1, 0)
        ELSE IF At(s, q) = "+" THEN DecValue(s, q + 1, 0)
        ELSE DecValue(s, q, 0)

HexVal(c) ==
    IF IsDigit(c) THEN DigitVal(c)
    ELSE IF IndexIn(UpperHex, c) # 0 THEN 9 + IndexIn(UpperHex, c)
    ELSE IF IndexIn(LowerHex, c) # 0 THEN 9 + IndexIn(LowerHex, c)
    ELSE 16

RECURSIVE BaseValue(_, _, _, _)
BaseValue(s, p, base, acc) ==
    IF HexVal(At(s, p)) < base
    THEN BaseValue(s, p + 1, base, acc * base + HexVal(At(s, p)))
    ELSE acc

\* strtol(p, NULL, 0): 0x prefix is hexadecimal, 0 prefix octal, else decimal
strtol0(s, p) ==
    LET q == SkipSpaces(s, p)
        neg == At(s, q) = "-"
        r == IF At(s, q) = "-" \/ At(s, q) = "+" THEN q + 1 ELSE q
        v == IF At(s, r) = "0" /\ tolower(At(s, r + 1)) = "x"
                  /\ HexVal(At(s, r + 2)) < 16
             THEN BaseValue(s, r + 2, 16, 0)
             ELSE IF At(s, r) = "0" THEN BaseValue(s, r, 8, 0)
             ELSE BaseValue(s, r, 10, 0)
    IN  IF neg THEN 0 - v ELSE v

\* conversion to ViUInt16
U16(v) == v % 65536

kTCPIP == <<"T", "C", "P", "I", "P">>
kUSB == <<"U", "S", "B">>
kASRL == <<"A", "S", "R", "L">>
kGPIB == <<"G", "P", "I", "B">>
kINSTR == <<"I", "N", "S", "T", "R">>
kSOCKET == <<"S", "O", "C", "K", "E", "T">>
kHISLIP == <<"h", "i", "s", "l", "i", "p">>
kInst0 == <<"i", "n", "s", "t", "0">>
SEP == <<":", ":">>

(***************************************************************************)
(* Resource string parser                                                  *)
(***************************************************************************)
\* memset(rsrc, 0), raw copied, gpibSecAddr = -1
BlankResource(raw) ==
    [intfType |-> "NONE", intfNum |-> 0, host |-> <<>>, port |-> 0,
     deviceName |-> <<>>, usbVid |-> 0, usbPid |-> 0, usbSerial |-> <<>>,
     usbIntfNum |-> 0, comPort |-> 0, gpibAddr |-> 0, gpibSecAddr |-> 0 - 1,
     isSocket |-> FALSE, isHiSLIP |-> FALSE, raw |-> raw]

\* the all-zero descriptor of a memset session
ZeroResource ==
    [intfType |-> "NONE", intfNum |-> 0, host |-> <<>>, port |-> 0,
     deviceName |-> <<>>, usbVid |-> 0, usbPid |-> 0, usbSerial |-> <<>>,
     usbIntfNum |-> 0, comPort |-> 0, gpibAddr |-> 0, gpibSecAddr |-> 0,
     isSocket |-> FALSE, isHiSLIP |-> FALSE, raw |-> <<>>]

\* optional board number after a keyword of length klen
BoardNum(s, klen) ==
    IF IsDigit(At(s, klen + 1)) THEN U16(atoi(s, klen + 1)) ELSE 0

AfterBoard(s, klen) == SkipDigits(s, klen + 1)

\* a plausible slip: the SOCKET branch stores the port and not the flag
ParseTCPIP_noflag(s) ==
    LET r0 == [BlankResource(s) EXCEPT !.intfType = "TCPIP",
                                       !.intfNum = BoardNum(s, 5)]
        p0 == AfterBoard(s, 5)
        p1 == p0 + 2
        r1 == [r0 EXCEPT !.host = Field(s, p1)]
        p2 == FieldEnd(s, p1)
        p3 == p2 + 2
        fld == Field(s, p3)
        p4 == FieldEnd(s, p3)
        p5 == p4 + 2
    IN  IF ~IsSep(s, p0) THEN [st |-> "VI_ERROR_INV_RSRC_NAME", rsrc |-> r0]
        ELSE IF At(s, p2) = NUL
        THEN [st |-> "VI_SUCCESS",
              rsrc |-> [r1 EXCEPT !.deviceName = kInst0, !.port = 111]]
        ELSE IF starts_with_ci(s, p3, kINSTR)
        THEN [st |-> "VI_SUCCESS",
              rsrc |-> [r1 EXCEPT !.deviceName = kInst0, !.port = 111]]
        ELSE IF starts_with_ci(s, p3, kHISLIP)
        THEN [st |-> "VI_SUCCESS",
              rsrc |-> [r1 EXCEPT !.isHiSLIP = TRUE, !.port = 4880,
                                  !.deviceName = fld]]
        ELSE IF At(s, p4) = NUL \/ starts_with_ci(s, p5, kINSTR)
        THEN [st |-> "VI_SUCCESS",
              rsrc |-> [r1 EXCEPT !.deviceName = fld, !.port = 111]]
        ELSE IF starts_with_ci(s, p5, kSOCKET)
        THEN [st |-> "VI_SUCCESS",
              rsrc |-> [r1 EXCEPT !.port = U16(atoi(fld, 1))]]
        ELSE [st |-> "VI_SUCCESS",
              rsrc |-> [r1 EXCEPT !.port = U16(atoi(fld, 1)),
                                  !.deviceName = kInst0]]

ParseTCPIP(s) ==
    LET r0 == [BlankResource(s) EXCEPT !.intfType = "TCPIP",
                                       !.intfNum = BoardNum(s, 5)]
        p0 == AfterBoard(s, 5)
        p1 == p0 + 2
        r1 == [r0 EXCEPT !.host = Field(s, p1)]
        p2 == FieldEnd(s, p1)
        p3 == p2 + 2
        fld == Field(s, p3)
        p4 == FieldEnd(s, p3)
        p5 == p4 + 2
    IN  IF ~IsSep(s, p0) THEN [st |-> "VI_ERROR_INV_RSRC_NAME", rsrc |-> r0]
        ELSE IF At(s, p2) = NUL
        THEN [st |-> "VI_SUCCESS",
              rsrc |-> [r1 EXCEPT !.deviceName = kInst0, !.port = 111]]
        ELSE IF starts_with_ci(s, p3, kINSTR)
        THEN [st |-> "VI_SUCCESS",
              rsrc |-> [r1 EXCEPT !.deviceName = kInst0, !.port = 111]]
        ELSE IF starts_with_ci(s, p3, kHISLIP)
        THEN [st |-> "VI_SUCCESS",
              rsrc |-> [r1 EXCEPT !.isHiSLIP = TRUE, !.port = 4880,
                                  !.deviceName = fld]]
        ELSE IF At(s, p4) = NUL \/ starts_with_ci(s, p5, kINSTR)
        THEN [st |-> "VI_SUCCESS",
              rsrc |-> [r1 EXCEPT !.deviceName = fld, !.port = 111]]
        ELSE IF starts_with_ci(s, p5, kSOCKET)
        THEN [st |-> "VI_SUCCESS",
              rsrc |-> [r1 EXCEPT !.isSocket = TRUE,
                                  !.port = U16(atoi(fld, 1))]]
        ELSE [st |-> "VI_SUCCESS",
              rsrc |-> [r1 EXCEPT !.port = U16(atoi(fld, 1)),
                                  !.deviceName = kInst0]]

\* skip one "::"-terminated field: the position after its separator
NextField(s, p) ==
    LET e == FieldEnd(s, p) IN IF At(s, e) # NUL THEN e + 2 ELSE e

ParseUSB(s) ==
    LET r0 == [BlankResource(s) EXCEPT !.intfType = "USB",
                                       !.intfNum = BoardNum(s, 3)]
        p0 == AfterBoard(s, 3)
        p1 == p0 + 2
        p2 == NextField(s, p1)
        p3 == NextField(s, p2)
    IN  IF ~IsSep(s, p0) THEN [st |-> "VI_ERROR_INV_RSRC_NAME", rsrc |-> r0]
        ELSE [st |-> "VI_SUCCESS",
              rsrc |-> [r0 EXCEPT !.usbVid = U16(strtol0(s, p1)),
                                  !.usbPid = U16(strtol0(s, p2)),
                                  !.usbSerial = Field(s, p3)]]

ParseASRL(s) ==
    [st |-> "VI_SUCCESS",
     rsrc |-> [BlankResource(s) EXCEPT !.intfType = "ASRL",
                                       !.comPort = atoi(s, 5)]]

\* a plausible slip: the field after the primary address is never read
ParseGPIB_nosec(s) ==
    LET r0 == [BlankResource(s) EXCEPT !.intfType = "GPIB",
                                       !.intfNum = BoardNum(s, 4)]
        p0 == AfterBoard(s, 4)
        p1 == p0 + 2
        r1 == [r0 EXCEPT !.gpibAddr = atoi(s, p1)]
        p2 == SkipDigits(s, p1)
        p3 == p2 + 2
    IN  IF ~IsSep(s, p0) THEN [st |-> "VI_ERROR_INV_RSRC_NAME", rsrc |-> r0]
        ELSE [st |-> "VI_SUCCESS", rsrc |-> r1]

ParseGPIB(s) ==
    LET r0 == [BlankResource(s) EXCEPT !.intfType = "GPIB",
                                       !.intfNum = BoardNum(s, 4)]
        p0 == AfterBoard(s, 4)
        p1 == p0 + 2
        r1 == [r0 EXCEPT !.gpibAddr = atoi(s, p1)]
        p2 == SkipDigits(s, p1)
        p3 == p2 + 2
    IN  IF ~IsSep(s, p0) THEN [st |-> "VI_ERROR_INV_RSRC_NAME", rsrc |-> r0]
        ELSE IF IsSep(s, p2) /\ ~starts_with_ci(s, p3, kINSTR)
        THEN [st |-> "VI_SUCCESS",
              rsrc |-> [r1 EXCEPT !.gpibSecAddr = atoi(s, p3)]]
        ELSE [st |-> "VI_SUCCESS", rsrc |-> r1]

ov_parse_rsrc(s) ==
    IF starts_with_ci(s, 1, kTCPIP) THEN ParseTCPIP(s)
    ELSE IF starts_with_ci(s, 1, kUSB) THEN ParseUSB(s)
    ELSE IF starts_with_ci(s, 1, kASRL) THEN ParseASRL(s)
    ELSE IF starts_with_ci(s, 1, kGPIB) THEN ParseGPIB(s)
    ELSE [st |-> "VI_ERROR_INV_RSRC_NAME", rsrc |-> BlankResource(s)]

(***************************************************************************)
(* State                                                                   *)
(***************************************************************************)
VARIABLES
    initialized,   \* g_state.initialized
    sessions,      \* g_state.sessions[]
    findLists,     \* g_state.findLists[]
    nextHandle,    \* g_state.nextHandle
    transports,    \* heap of OvTransport objects created by viOpen
    ret,           \* the last API call: operation, handle argument, result
    issued,        \* handles returned by successful opens, in order
    closedH,       \* session handles on which viClose has succeeded
    thr,           \* per-thread position inside a concurrent open call
    vx,            \* Vxi11Impl
    hs,            \* HiSLIPImpl
    ut,            \* UsbtmcImpl
    gpib,          \* GpibImpl
    wire,          \* messages put on the wire by the latest transport call
    res,           \* outcome of the latest transport call
    fn             \* a library function called on its own: argument, result

regVars == <<initialized, sessions, findLists, nextHandle, transports, ret,
             issued, closedH, fn>>
ioVars == <<vx, hs, ut, gpib, wire, res, fn>>
vars == <<initialized, sessions, findLists, nextHandle, transports, ret,
          issued, closedH, thr, vx, hs, ut, gpib, wire, res, fn>>

\* fn belongs to both groups: no API call and no transport call touches it
NoFn == [name |-> "none", done |-> FALSE]

Slots == 1..MaxSessions
FlSlots == 1..MaxFindLists
Handles == 0..MaxHandle

Threads == {1, 2}

\* a thread that is not inside viOpenDefaultRM or viOpen
ThreadIdle == [pc |-> "idle", op |-> "none", rsrc |-> ZeroResource, i |-> 0,
               h |-> 0, st |-> "VI_SUCCESS", vi |-> 0]

(***************************************************************************)
(* 32-bit unsigned arithmetic on <<hi, lo>> pairs                          *)
(***************************************************************************)
Half == 65536

\* x + k modulo 2^32, for 0 <= k < 2^16
Add32(x, k) ==
    IF x[2] + k < Half THEN <<x[1], x[2] + k>>
    ELSE <<(x[1] + 1) % Half, x[2] + k - Half>>

\* a - b modulo 2^32
Sub32(a, b) ==
    LET dlo == a[2] - b[2]
        borrow == IF dlo < 0 THEN 1 ELSE 0
    IN  <<(a[1] - b[1] - borrow + Half) % Half, (dlo + Half) % Half>>

\* a is ahead of b by 1 .. 2^31 - 1 steps modulo 2^32
After32(a, b) ==
    LET d == Sub32(a, b) IN d # <<0, 0>> /\ d[1] < Half \div 2

(***************************************************************************)
(* Transport instances as the factories leave them                         *)
(***************************************************************************)
OV_BUF_SIZE == 65536

\* Vxi11Impl after calloc and the factory's assignments; life and calls
\* record where the instance is in viOpen .. viClose and how many RPC calls
\* it has numbered
ov_transport_tcpip_vxi11_create ==
    [life |-> "created", sock |-> FALSE, core_port |-> 0, lid |-> -1,
     xid |-> <<0, 0>>, max_recv_size |-> 65536, calls |-> 0,
     steps |-> <<>>]

\* HiSLIPImpl after calloc and the factory's assignments
ov_transport_tcpip_hislip_create ==
    [life |-> "created", sync_sock |-> FALSE, async_sock |-> FALSE,
     port |-> 0, session_id |-> 0, message_id |-> <<0, 0>>,
     max_msg_size |-> OV_BUF_SIZE, writes |-> 0, socks |-> {}]

\* UsbtmcImpl after calloc; libusb tells whether the library was built
\* with HAVE_LIBUSB (without it the factory installs the stub operations
\* and no impl)
ov_transport_usbtmc_create(libusb) ==
    [libusb |-> libusb, life |-> "created", ctx |-> FALSE, dev |-> FALSE,
     bTag |-> 0, usb488_if |-> 0, ren_control |-> 0, trigger |-> 0,
     read_stb_cap |-> 0]

\* GpibImpl after calloc, the factory's assignments and gpib_load_lib;
\* lib tells whether the GPIB library and its mandatory symbols were found
ov_transport_gpib_create(lib) ==
    [lib |-> lib, life |-> "created", ud |-> -1, board |-> 0, pad |-> 1,
     sad |-> -1]

\* nothing has been put on the wire
NoWire == [prev |-> <<>>, msgs |-> <<>>]

\* no transport call has been made
\* no reply of the device has been decoded by the call
Undecoded == [error |-> 0, reason |-> 0, data_len |-> 0 - 1]

NoRes == [op |-> "none", pending |-> FALSE, st |-> "VI_SUCCESS", count |-> 0,
          retCount |-> 0, stored |-> 0, eom |-> FALSE, n |-> 0, stb |-> 0,
          reply |-> Undecoded]

(***************************************************************************)
(* Session table (session.c)                                               *)
(***************************************************************************)
\* memset(&session, 0, sizeof(OvSession))
ZeroSession ==
    [active |-> FALSE, isRM |-> FALSE, handle |-> 0, resource |-> ZeroResource,
     transport |-> 0, timeout |-> 0, termChar |-> 0, termCharEn |-> FALSE,
     sendEndEn |-> FALSE]

\* memset(&findList, 0, sizeof(OvFindList))
ZeroFindList ==
    [active |-> FALSE, handle |-> 0, descriptors |-> <<>>, count |-> 0,
     current |-> 0]

\* index of the first inactive slot of a table, 0 when every slot is active
FirstFree(tab) ==
    IF \E i \in DOMAIN tab : ~tab[i].active
    THEN CHOOSE i \in DOMAIN tab :
             ~tab[i].active /\ \A j \in DOMAIN tab : j < i => tab[j].active
    ELSE 0

\* index of the first active slot holding handle h, 0 when there is none
FirstWith(tab, h) ==
    IF \E i \in DOMAIN tab : tab[i].active /\ tab[i].handle = h
    THEN CHOOSE i \in DOMAIN tab :
             /\ tab[i].active /\ tab[i].handle = h
             /\ \A j \in DOMAIN tab :
                    j < i => ~(tab[j].active /\ tab[j].handle = h)
    ELSE 0

\* a plausible slip: the slot is taken as it was left, without the defaults
ov_session_alloc_asleft(ss, nh) ==
    LET i == FirstFree(ss)
    IN  IF i = 0 THEN [slot |-> 0, sessions |-> ss, nextHandle |-> nh]
        ELSE [slot |-> i,
              sessions |-> [ss EXCEPT ![i].active = TRUE, ![i].handle = nh],
              nextHandle |-> nh + 1]

\* a plausible slip: the handle is taken without advancing the counter
ov_session_alloc_stale(ss, nh) ==
    LET i == FirstFree(ss)
    IN  IF i = 0 THEN [slot |-> 0, sessions |-> ss, nextHandle |-> nh]
        ELSE [slot |-> i,
              sessions |-> [ss EXCEPT ![i] =
                  [ZeroSession EXCEPT !.active = TRUE, !.handle = nh,
                                      !.timeout = 2000, !.termChar = 10,
                                      !.termCharEn = FALSE,
                                      !.sendEndEn = TRUE]],
              nextHandle |-> nh]

ov_session_alloc(ss, nh) ==
    LET i == FirstFree(ss)
    IN  IF i = 0 THEN [slot |-> 0, sessions |-> ss, nextHandle |-> nh]
        ELSE [slot |-> i,
              sessions |-> [ss EXCEPT ![i] =
                  [ZeroSession EXCEPT !.active = TRUE, !.handle = nh,
                                      !.timeout = 2000, !.termChar = 10,
                                      !.termCharEn = FALSE,
                                      !.sendEndEn = TRUE]],
              nextHandle |-> nh + 1]

ov_session_find(ss, h) == FirstWith(ss, h)

\* a plausible slip: the transport is released but the slot is not cleared
ov_session_free_keep(ss, tr, i) ==
    IF i = 0 THEN [sessions |-> ss, transports |-> tr]
    ELSE LET t == ss[i].transport
         IN  [sessions |-> ss,
              transports |->
                  IF t = 0 THEN tr
                  ELSE [tr EXCEPT ![t].closeCalls = @ + 1,
                                  ![t].freed = TRUE]]

\* a plausible slip: the transport memory is freed without calling close
ov_session_free_noclose(ss, tr, i) ==
    IF i = 0 THEN [sessions |-> ss, transports |-> tr]
    ELSE LET t == ss[i].transport
         IN  [sessions |-> [ss EXCEPT ![i] = ZeroSession],
              transports |->
                  IF t = 0 THEN tr ELSE [tr EXCEPT ![t].freed = TRUE]]

\* the session in slot i (0 = NULL) is released: transport closed and freed
ov_session_free(ss, tr, i) ==
    IF i = 0 THEN [sessions |-> ss, transports |-> tr]
    ELSE LET t == ss[i].transport
         IN  [sessions |-> [ss EXCEPT ![i] = ZeroSession],
              transports |->
                  IF t = 0 THEN tr
                  ELSE [tr EXCEPT ![t].closeCalls = @ + 1,
                                  ![t].freed = TRUE]]

\* a plausible slip: find lists numbered on their own, by slot
ov_findlist_alloc_own(fls, nh) ==
    LET i == FirstFree(fls)
    IN  IF i = 0 THEN [slot |-> 0, findLists |-> fls, nextHandle |-> nh]
        ELSE [slot |-> i,
              findLists |-> [fls EXCEPT ![i] =
                  [ZeroFindList EXCEPT !.active = TRUE, !.handle = i]],
              nextHandle |-> nh]

ov_findlist_alloc(fls, nh) ==
    LET i == FirstFree(fls)
    IN  IF i = 0 THEN [slot |-> 0, findLists |-> fls, nextHandle |-> nh]
        ELSE [slot |-> i,
              findLists |-> [fls EXCEPT ![i] =
                  [ZeroFindList EXCEPT !.active = TRUE, !.handle = nh]],
              nextHandle |-> nh + 1]

ov_findlist_find(fls, h) == FirstWith(fls, h)

ov_findlist_free(fls, i) ==
    IF i = 0 THEN fls ELSE [fls EXCEPT ![i] = ZeroFindList]

(***************************************************************************)
(* Transport factory (transport.c)                                         *)
(***************************************************************************)
\* resource-aware factory; present in the source, not called by viOpen
ov_transport_create_for_rsrc(rsrc) ==
    IF rsrc.intfType = "TCPIP"
    THEN IF rsrc.isHiSLIP THEN "HISLIP"
         ELSE IF rsrc.isSocket THEN "RAW"
         ELSE "VXI11"
    ELSE IF rsrc.intfType = "USB" THEN "USBTMC"
    ELSE IF rsrc.intfType = "ASRL" THEN "SERIAL"
    ELSE IF rsrc.intfType = "GPIB" THEN "GPIB"
    ELSE "NULL"

\* legacy type-only factory, the one viOpen calls
ov_transport_create(type) ==
    IF type = "TCPIP" THEN "VXI11"
    ELSE IF type = "USB" THEN "USBTMC"
    ELSE IF type = "ASRL" THEN "SERIAL"
    ELSE IF type = "GPIB" THEN "GPIB"
    ELSE "NULL"

(***************************************************************************)
(* Inputs of the API calls                                                 *)
(***************************************************************************)
RsrcNames ==
    { kTCPIP \o SEP \o <<"h">> \o SEP \o <<"5">> \o SEP \o kSOCKET,
      <<"F", "O", "O">> \o SEP \o <<"x">> }

\* statuses the open of a transport may return to viOpen
OpenStatuses == {"VI_SUCCESS", "VI_ERROR_TMO"}

\* statuses a transport read, write, readSTB or clear may return
IoStatuses == {"VI_SUCCESS", "VI_ERROR_TMO"}

\* descriptor lists discovery may leave in a find list after filtering
FoundLists == {<<>>, <<"d1">>}

\* the caller's desc buffer when the call wrote nothing into it
NoDesc == ""

\* attributes explored through the registry specification
Attributes == {"VI_ATTR_TMO_VALUE", "VI_ATTR_OTHER"}

\* values passed to viSetAttribute
AttrStates == {266}

Result(op, h, st, out) ==
    [op |-> op, st |-> st, out |-> out, wasClosed |-> h \in closedH,
     desc |-> NoDesc]

(***************************************************************************)
(* Discovery (discovery.c)                                                 *)
(***************************************************************************)
\* descriptors one find list holds
FL_MAX == 128

\* serial ports of the largest machine explored
ManyPorts == 130

kWild == <<"?", "*">>

\* snprintf("%d") of a natural number
RECURSIVE Dec(_)
Dec(n) == IF n < 10 THEN <<Digits[n + 1]>>
          ELSE Dec(n \div 10) \o <<Digits[(n % 10) + 1]>>

\* strchr(s, c) != NULL
strchr(s, c) == \E k \in 1..Len(s) : s[k] = c

\* a slip: every descriptor is appended, seen before or not
fl_add_any(fl, rsrc) ==
    IF Len(fl) >= FL_MAX THEN fl ELSE Append(fl, rsrc)

\* the descriptors of a find list after fl_add(fl, rsrc); its count is the
\* length of the sequence
fl_add(fl, rsrc) ==
    IF Len(fl) >= FL_MAX THEN fl
    ELSE IF \E i \in 1..Len(fl) : fl[i] = rsrc THEN fl
    ELSE Append(fl, rsrc)

\* fl_add of the descriptors emitted[lo..hi] a discoverer emits, in order
\* (the first half, then the second)
RECURSIVE AddAll(_, _, _, _)
AddAll(fl, emitted, lo, hi) ==
    IF lo > hi THEN fl
    ELSE IF lo = hi THEN fl_add(fl, emitted[lo])
    ELSE LET mid == (lo + hi) \div 2
             half == AddAll(fl, emitted, lo, mid)
         IN  IF Len(half) <= FL_MAX
             THEN AddAll(half, emitted, mid + 1, hi)
             ELSE half

\* the loop of glob_match and its tail; star_p = 0 is the NULL pointer
RECURSIVE glob_loop(_, _, _, _, _, _)
glob_loop(pattern, str, p, s, star_p, star_s) ==
    IF At(str, s) # NUL
    THEN IF \/ At(pattern, p) = "?"
            \/ tolower(At(pattern, p)) = tolower(At(str, s))
         THEN glob_loop(pattern, str, p + 1, s + 1, star_p, star_s)
         ELSE IF At(pattern, p) = "*"
         THEN glob_loop(pattern, str, p + 1, s, p, s)
         ELSE IF star_p # 0
         THEN glob_loop(pattern, str, star_p + 1, star_s + 1, star_p,
                        star_s + 1)
         ELSE FALSE
    ELSE IF At(pattern, p) = "*"
    THEN glob_loop(pattern, str, p + 1, s, star_p, star_s)
    ELSE At(pattern, p) = NUL

glob_match(pattern, str) == glob_loop(pattern, str, 1, 1, 0, 0)

\* the resource strings mdns_discover_service adds for its records
RECURSIVE mdns_rsrcs(_, _, _)
mdns_rsrcs(records, isHiSLIP, i) ==
    IF i > Len(records) THEN <<>>
    ELSE LET r == records[i]
             head == kTCPIP \o <<"0">> \o SEP \o r.ipv4 \o SEP
             instr == IF isHiSLIP
                      THEN head \o kHISLIP \o <<"0">> \o SEP \o kINSTR
                      ELSE head \o kInst0 \o SEP \o kINSTR
             socket == head \o Dec(r.port) \o SEP \o kSOCKET
         IN  (IF r.ipv4 = <<>> THEN <<>>
              ELSE IF r.port > 0 /\ ~isHiSLIP THEN <<instr, socket>>
              ELSE <<instr>>)
             \o mdns_rsrcs(records, isHiSLIP, i + 1)

\* the resource strings serial_discover adds for the COM ports of the
\* registry, ASRL%d::INSTR for each port number above 0
serial_rsrcs(ports) ==
    LET named == SelectSeq(ports, LAMBDA n : n > 0)
    IN  [k \in 1..Len(named) |-> kASRL \o Dec(named[k]) \o SEP \o kINSTR]

\* env: the records the two mDNS services answer with, the resource strings
\* usb_discover builds and the COM port numbers of the registry
Emitted(env) ==
    [tcpip |-> mdns_rsrcs(env.lxi, FALSE, 1)
                   \o mdns_rsrcs(env.hislip, TRUE, 1),
     usb |-> env.usb,
     asrl |-> serial_rsrcs(env.ports)]

ov_discover(expr0, env) ==
    LET expr == IF expr0 = <<>> THEN kWild ELSE expr0
        wild == strchr(expr, "*") \/ strchr(expr, "?")
        broad == expr = kWild \/ expr = kWild \o SEP \o kINSTR
        want_tcpip ==
            \/ glob_match(expr, kTCPIP \o kWild)
            \/ glob_match(kTCPIP \o <<"0">> \o SEP \o <<"x">> \o SEP
                              \o kInst0 \o SEP \o kINSTR, expr)
            \/ wild \/ broad
        want_usb == glob_match(expr, kUSB \o kWild) \/ wild \/ broad
        want_asrl == glob_match(expr, kASRL \o kWild) \/ wild \/ broad
        em == Emitted(env)
        fl1 == IF want_tcpip THEN AddAll(<<>>, em.tcpip, 1, Len(em.tcpip))
               ELSE <<>>
        fl2 == IF want_usb THEN AddAll(fl1, em.usb, 1, Len(em.usb)) ELSE fl1
        fl3 == IF want_asrl THEN AddAll(fl2, em.asrl, 1, Len(em.asrl))
               ELSE fl2
        kept == SelectSeq(fl3, LAMBDA d : glob_match(expr, d))
    IN  [st |-> IF Len(kept) > 0 THEN "VI_SUCCESS"
                ELSE "VI_ERROR_RSRC_NFOUND",
         descriptors |-> kept]

\* what ov_discover leaves in the list viFindRsrc hands it: computed from
\* the expression and the environment where the specification fixes them,
\* any of FoundLists elsewhere
Discovered ==
    IF fn.name = "ov_discover"
    THEN {ov_discover(fn.expr, fn.env).descriptors}
    ELSE FoundLists

(***************************************************************************)
(* VISA API (session.c, discovery.c)                                       *)
(***************************************************************************)
\* a plausible slip: the table is reset on every call
viOpenDefaultRM_reset(viOk) ==
    LET ss0 == [i \in Slots |-> ZeroSession]
        fl0 == [i \in FlSlots |-> ZeroFindList]
        nh0 == 1
        a == ov_session_alloc(ss0, nh0)
    IN  /\ nextHandle <= MaxHandle
        /\ IF ~viOk
           THEN /\ ret' = Result("viOpenDefaultRM", 0, "VI_ERROR_INV_OBJECT", 0)
                /\ UNCHANGED <<initialized, sessions, findLists, nextHandle,
                               issued>>
           ELSE /\ initialized' = TRUE
                /\ findLists' = fl0
                /\ IF a.slot = 0
                   THEN /\ sessions' = ss0
                        /\ nextHandle' = nh0
                        /\ ret' = Result("viOpenDefaultRM", 0,
                                          "VI_ERROR_ALLOC", 0)
                        /\ UNCHANGED issued
                   ELSE /\ sessions' = [a.sessions EXCEPT
                                            ![a.slot].isRM = TRUE]
                        /\ nextHandle' = a.nextHandle
                        /\ ret' = Result("viOpenDefaultRM", 0, "VI_SUCCESS",
                                          a.sessions[a.slot].handle)
                        /\ issued' = Append(issued,
                                            a.sessions[a.slot].handle)
        /\ UNCHANGED <<transports, closedH, thr>>
        /\ UNCHANGED ioVars

\* viOk: the caller's vi pointer is not NULL; the table is reset by the
\* first call only
viOpenDefaultRM(viOk) ==
    LET ss0 == IF initialized THEN sessions ELSE [i \in Slots |-> ZeroSession]
        fl0 == IF initialized THEN findLists
               ELSE [i \in FlSlots |-> ZeroFindList]
        nh0 == IF initialized THEN nextHandle ELSE 1
        a == ov_session_alloc(ss0, nh0)
    IN  /\ nextHandle <= MaxHandle
        /\ IF ~viOk
           THEN /\ ret' = Result("viOpenDefaultRM", 0, "VI_ERROR_INV_OBJECT", 0)
                /\ UNCHANGED <<initialized, sessions, findLists, nextHandle,
                               issued>>
           ELSE /\ initialized' = TRUE
                /\ findLists' = fl0
                /\ IF a.slot = 0
                   THEN /\ sessions' = ss0
                        /\ nextHandle' = nh0
                        /\ ret' = Result("viOpenDefaultRM", 0,
                                          "VI_ERROR_ALLOC", 0)
                        /\ UNCHANGED issued
                   ELSE /\ sessions' = [a.sessions EXCEPT
                                            ![a.slot].isRM = TRUE]
                        /\ nextHandle' = a.nextHandle
                        /\ ret' = Result("viOpenDefaultRM", 0, "VI_SUCCESS",
                                          a.sessions[a.slot].handle)
                        /\ issued' = Append(issued,
                                            a.sessions[a.slot].handle)
        /\ UNCHANGED <<transports, closedH, thr>>
        /\ UNCHANGED ioVars

\* a plausible slip: a failed transport open returns without releasing
\* the session
viOpen_leak(sesn, rsrcName) ==
    LET rm == ov_session_find(sessions, sesn)
        pr == ov_parse_rsrc(rsrcName)
        a == ov_session_alloc(sessions, nextHandle)
        kind == ov_transport_create(pr.rsrc.intfType)
        tid == Len(transports) + 1
        ss1 == [a.sessions EXCEPT ![a.slot].resource = pr.rsrc,
                                  ![a.slot].transport = tid]
    IN  /\ nextHandle <= MaxHandle
        /\ IF rm = 0 \/ ~sessions[IF rm = 0 THEN 1 ELSE rm].isRM
           THEN /\ ret' = Result("viOpen", sesn, "VI_ERROR_INV_OBJECT", 0)
                /\ UNCHANGED <<sessions, nextHandle, transports, issued>>
           ELSE IF pr.st # "VI_SUCCESS"
           THEN /\ ret' = Result("viOpen", sesn, pr.st, 0)
                /\ UNCHANGED <<sessions, nextHandle, transports, issued>>
           ELSE IF a.slot = 0
           THEN /\ ret' = Result("viOpen", sesn, "VI_ERROR_ALLOC", 0)
                /\ UNCHANGED <<sessions, nextHandle, transports, issued>>
           ELSE \E createOk \in (IF kind = "NULL" THEN {FALSE} ELSE BOOLEAN) :
                IF ~createOk
                THEN /\ sessions' =
                            ov_session_free(
                                [a.sessions EXCEPT
                                     ![a.slot].resource = pr.rsrc],
                                transports, a.slot).sessions
                     /\ nextHandle' = a.nextHandle
                     /\ ret' = Result("viOpen", sesn,
                                       "VI_ERROR_RSRC_NFOUND", 0)
                     /\ UNCHANGED <<transports, issued>>
                ELSE \E openSt \in OpenStatuses :
                     LET tr1 == Append(transports,
                                       [kind |-> kind,
                                        opened |-> openSt = "VI_SUCCESS",
                                        closeCalls |-> 0, freed |-> FALSE])
                         fr == ov_session_free(ss1, tr1, a.slot)
                     IN  IF openSt # "VI_SUCCESS"
                         THEN /\ sessions' = ss1
                              /\ transports' = tr1
                              /\ nextHandle' = a.nextHandle
                              /\ ret' = Result("viOpen", sesn, openSt, 0)
                              /\ UNCHANGED issued
                         ELSE /\ sessions' = ss1
                              /\ transports' = tr1
                              /\ nextHandle' = a.nextHandle
                              /\ ret' = Result("viOpen", sesn, "VI_SUCCESS",
                                                ss1[a.slot].handle)
                              /\ issued' = Append(issued, ss1[a.slot].handle)
        /\ UNCHANGED <<initialized, findLists, closedH, thr>>
        /\ UNCHANGED ioVars

\* the factory's result (createOk) and the status of the transport's open
\* (openSt) are drawn where viOpen consults them
viOpen(sesn, rsrcName) ==
    LET rm == ov_session_find(sessions, sesn)
        pr == ov_parse_rsrc(rsrcName)
        a == ov_session_alloc(sessions, nextHandle)
        kind == ov_transport_create(pr.rsrc.intfType)
        tid == Len(transports) + 1
        ss1 == [a.sessions EXCEPT ![a.slot].resource = pr.rsrc,
                                  ![a.slot].transport = tid]
    IN  /\ nextHandle <= MaxHandle
        /\ IF rm = 0 \/ ~sessions[IF rm = 0 THEN 1 ELSE rm].isRM
           THEN /\ ret' = Result("viOpen", sesn, "VI_ERROR_INV_OBJECT", 0)
                /\ UNCHANGED <<sessions, nextHandle, transports, issued>>
           ELSE IF pr.st # "VI_SUCCESS"
           THEN /\ ret' = Result("viOpen", sesn, pr.st, 0)
                /\ UNCHANGED <<sessions, nextHandle, transports, issued>>
           ELSE IF a.slot = 0
           THEN /\ ret' = Result("viOpen", sesn, "VI_ERROR_ALLOC", 0)
                /\ UNCHANGED <<sessions, nextHandle, transports, issued>>
           ELSE \E createOk \in (IF kind = "NULL" THEN {FALSE} ELSE BOOLEAN) :
                IF ~createOk
                THEN /\ sessions' =
                            ov_session_free(
                                [a.sessions EXCEPT
                                     ![a.slot].resource = pr.rsrc],
                                transports, a.slot).sessions
                     /\ nextHandle' = a.nextHandle
                     /\ ret' = Result("viOpen", sesn,
                                       "VI_ERROR_RSRC_NFOUND", 0)
                     /\ UNCHANGED <<transports, issued>>
                ELSE \E openSt \in OpenStatuses :
                     LET tr1 == Append(transports,
                                       [kind |-> kind,
                                        opened |-> openSt = "VI_SUCCESS",
                                        closeCalls |-> 0, freed |-> FALSE])
                         fr == ov_session_free(ss1, tr1, a.slot)
                     IN  IF openSt # "VI_SUCCESS"
                         THEN /\ sessions' = fr.sessions
                              /\ transports' = fr.transports
                              /\ nextHandle' = a.nextHandle
                              /\ ret' = Result("viOpen", sesn, openSt, 0)
                              /\ UNCHANGED issued
                         ELSE /\ sessions' = ss1
                              /\ transports' = tr1
                              /\ nextHandle' = a.nextHandle
                              /\ ret' = Result("viOpen", sesn, "VI_SUCCESS",
                                                ss1[a.slot].handle)
                              /\ issued' = Append(issued, ss1[a.slot].handle)
        /\ UNCHANGED <<initialized, findLists, closedH, thr>>
        /\ UNCHANGED ioVars

viClose(vi) ==
    LET si == ov_session_find(sessions, vi)
        fi == ov_findlist_find(findLists, vi)
        fr == ov_session_free(sessions, transports, si)
    IN  /\ IF si # 0
           THEN /\ sessions' = fr.sessions
                /\ transports' = fr.transports
                /\ closedH' = closedH \cup {vi}
                /\ ret' = Result("viClose", vi, "VI_SUCCESS", 0)
                /\ UNCHANGED findLists
           ELSE IF fi # 0
           THEN /\ findLists' = ov_findlist_free(findLists, fi)
                /\ ret' = Result("viClose", vi, "VI_SUCCESS", 0)
                /\ UNCHANGED <<sessions, transports, closedH>>
           ELSE /\ ret' = Result("viClose", vi, "VI_ERROR_INV_OBJECT", 0)
                /\ UNCHANGED <<sessions, transports, closedH, findLists>>
        /\ UNCHANGED <<initialized, nextHandle, issued, thr>>
        /\ UNCHANGED ioVars

\* viRead, viWrite, viReadSTB and viClear share one shape: look the session
\* up, reject a session without transport, delegate to the transport and
\* return the status the transport gives
Delegate(op, vi) ==
    LET si == ov_session_find(sessions, vi)
    IN  /\ IF si = 0 \/ sessions[IF si = 0 THEN 1 ELSE si].transport = 0
           THEN ret' = Result(op, vi, "VI_ERROR_INV_OBJECT", 0)
           ELSE \E ioSt \in IoStatuses : ret' = Result(op, vi, ioSt, 0)
        /\ UNCHANGED <<initialized, sessions, findLists, nextHandle,
                       transports, issued, closedH, thr>>
        /\ UNCHANGED ioVars

viRead(vi) == Delegate("viRead", vi)

viWrite(vi) == Delegate("viWrite", vi)

viReadSTB(vi) == Delegate("viReadSTB", vi)

viClear(vi) == Delegate("viClear", vi)

\* what viGetAttribute returns on the session table ss; attrStateOk: the
\* caller's attrState pointer is not NULL
GetAttribute(ss, vi, attribute, attrStateOk) ==
    LET si == ov_session_find(ss, vi)
        sess == ss[IF si = 0 THEN 1 ELSE si]
        Get(st, out) ==
            [op |-> "viGetAttribute", st |-> st, out |-> out,
             wasClosed |-> vi \in closedH, desc |-> NoDesc]
    IN  IF si = 0 \/ ~attrStateOk THEN Get("VI_ERROR_INV_OBJECT", 0)
        ELSE IF attribute = "VI_ATTR_TMO_VALUE"
        THEN Get("VI_SUCCESS", sess.timeout)
        ELSE IF attribute = "VI_ATTR_TERMCHAR"
        THEN Get("VI_SUCCESS", sess.termChar)
        ELSE IF attribute = "VI_ATTR_TERMCHAR_EN"
        THEN Get("VI_SUCCESS", sess.termCharEn)
        ELSE IF attribute = "VI_ATTR_SEND_END_EN"
        THEN Get("VI_SUCCESS", sess.sendEndEn)
        ELSE IF attribute = "VI_ATTR_RSRC_NAME"
        THEN Get("VI_SUCCESS", sess.resource.raw)
        ELSE IF attribute = "VI_ATTR_INTF_TYPE"
        THEN Get("VI_SUCCESS", sess.resource.intfType)
        ELSE IF attribute = "VI_ATTR_INTF_NUM"
        THEN Get("VI_SUCCESS", sess.resource.intfNum)
        ELSE IF attribute = "VI_ATTR_RSRC_MANF_NAME"
        THEN Get("VI_SUCCESS", "OpenVISA")
        ELSE IF attribute = "VI_ATTR_RSRC_IMPL_VERSION"
        THEN Get("VI_SUCCESS", 65536)
        ELSE Get("VI_ERROR_NSUP_ATTR", 0)

\* attrStateOk is looked at only for a session that exists
viGetAttribute(vi, attribute) ==
    LET si == ov_session_find(sessions, vi)
    IN  /\ \E attrStateOk \in (IF si = 0 THEN {TRUE} ELSE BOOLEAN) :
           ret' = GetAttribute(sessions, vi, attribute, attrStateOk)
        /\ UNCHANGED <<initialized, sessions, findLists, nextHandle,
                       transports, issued, closedH, thr>>
        /\ UNCHANGED ioVars

\* a plausible slip: the termination character is stored unmasked
viSetAttribute_wide(vi, attribute, attrState) ==
    LET si == ov_session_find(sessions, vi)
    IN  /\ IF si = 0
           THEN /\ ret' = Result("viSetAttribute", vi, "VI_ERROR_INV_OBJECT", 0)
                /\ UNCHANGED sessions
           ELSE IF attribute = "VI_ATTR_TMO_VALUE"
           THEN /\ sessions' = [sessions EXCEPT ![si].timeout = attrState]
                /\ ret' = Result("viSetAttribute", vi, "VI_SUCCESS", 0)
           ELSE IF attribute = "VI_ATTR_TERMCHAR"
           THEN /\ sessions' = [sessions EXCEPT
                                    ![si].termChar = attrState]
                /\ ret' = Result("viSetAttribute", vi, "VI_SUCCESS", 0)
           ELSE IF attribute = "VI_ATTR_TERMCHAR_EN"
           THEN /\ sessions' = [sessions EXCEPT
                                    ![si].termCharEn = (attrState # 0)]
                /\ ret' = Result("viSetAttribute", vi, "VI_SUCCESS", 0)
           ELSE IF attribute = "VI_ATTR_SEND_END_EN"
           THEN /\ sessions' = [sessions EXCEPT
                                    ![si].sendEndEn = (attrState # 0)]
                /\ ret' = Result("viSetAttribute", vi, "VI_SUCCESS", 0)
           ELSE /\ ret' = Result("viSetAttribute", vi, "VI_ERROR_NSUP_ATTR", 0)
                /\ UNCHANGED sessions
        /\ UNCHANGED <<initialized, findLists, nextHandle, transports,
                       issued, closedH, thr>>
        /\ UNCHANGED ioVars

viSetAttribute(vi, attribute, attrState) ==
    LET si == ov_session_find(sessions, vi)
    IN  /\ IF si = 0
           THEN /\ ret' = Result("viSetAttribute", vi, "VI_ERROR_INV_OBJECT", 0)
                /\ UNCHANGED sessions
           ELSE IF attribute = "VI_ATTR_TMO_VALUE"
           THEN /\ sessions' = [sessions EXCEPT ![si].timeout = attrState]
                /\ ret' = Result("viSetAttribute", vi, "VI_SUCCESS", 0)
           ELSE IF attribute = "VI_ATTR_TERMCHAR"
           THEN /\ sessions' = [sessions EXCEPT
                                    ![si].termChar = attrState % 256]
                /\ ret' = Result("viSetAttribute", vi, "VI_SUCCESS", 0)
           ELSE IF attribute = "VI_ATTR_TERMCHAR_EN"
           THEN /\ sessions' = [sessions EXCEPT
                                    ![si].termCharEn = (attrState # 0)]
                /\ ret' = Result("viSetAttribute", vi, "VI_SUCCESS", 0)
           ELSE IF attribute = "VI_ATTR_SEND_END_EN"
           THEN /\ sessions' = [sessions EXCEPT
                                    ![si].sendEndEn = (attrState # 0)]
                /\ ret' = Result("viSetAttribute", vi, "VI_SUCCESS", 0)
           ELSE /\ ret' = Result("viSetAttribute", vi, "VI_ERROR_NSUP_ATTR", 0)
                /\ UNCHANGED sessions
        /\ UNCHANGED <<initialized, findLists, nextHandle, transports,
                       issued, closedH, thr>>
        /\ UNCHANGED ioVars

\* discovery.c: the find list is allocated, filled by ov_discover with the
\* descriptors found, and released again when nothing was found
\* found is what ov_discover leaves in the list; findListOk and descOk say
\* whether the caller's findList and desc pointers are not NULL
viFindRsrc(rm) ==
    LET si == ov_session_find(sessions, rm)
        a == ov_findlist_alloc(findLists, nextHandle)
    IN  /\ nextHandle <= MaxHandle
        /\ IF ~initialized
           THEN /\ ret' = Result("viFindRsrc", rm, "VI_ERROR_SYSTEM_ERROR", 0)
                /\ UNCHANGED <<findLists, nextHandle, issued>>
           ELSE IF si = 0 \/ ~sessions[IF si = 0 THEN 1 ELSE si].isRM
           THEN /\ ret' = Result("viFindRsrc", rm, "VI_ERROR_INV_OBJECT", 0)
                /\ UNCHANGED <<findLists, nextHandle, issued>>
           ELSE IF a.slot = 0
           THEN /\ ret' = Result("viFindRsrc", rm, "VI_ERROR_ALLOC", 0)
                /\ UNCHANGED <<findLists, nextHandle, issued>>
           ELSE \E found \in Discovered :
                LET fl1 == [a.findLists EXCEPT
                                ![a.slot].descriptors = found,
                                ![a.slot].count = Len(found),
                                ![a.slot].current = 0]
                IN  IF Len(found) = 0
                    THEN /\ findLists' = ov_findlist_free(fl1, a.slot)
                         /\ nextHandle' = a.nextHandle
                         /\ ret' = Result("viFindRsrc", rm,
                                           "VI_ERROR_RSRC_NFOUND", 0)
                         /\ UNCHANGED issued
                    ELSE \E findListOk \in BOOLEAN, descOk \in BOOLEAN :
                         /\ findLists' =
                                IF descOk
                                THEN [fl1 EXCEPT ![a.slot].current = 1]
                                ELSE fl1
                         /\ nextHandle' = a.nextHandle
                         /\ ret' = [Result("viFindRsrc", rm, "VI_SUCCESS",
                                            IF findListOk
                                            THEN fl1[a.slot].handle ELSE 0)
                                        EXCEPT !.desc = IF descOk
                                                        THEN found[1]
                                                        ELSE NoDesc]
                         /\ issued' = IF findListOk
                                      THEN Append(issued, fl1[a.slot].handle)
                                      ELSE issued
        /\ UNCHANGED <<initialized, sessions, transports, closedH, thr>>
        /\ UNCHANGED ioVars

viFindNext(findList) ==
    LET fi == ov_findlist_find(findLists, findList)
        fl == findLists[IF fi = 0 THEN 1 ELSE fi]
    IN  /\ IF fi = 0
           THEN /\ ret' = Result("viFindNext", findList,
                                  "VI_ERROR_INV_OBJECT", 0)
                /\ UNCHANGED findLists
           ELSE IF fl.current >= fl.count
           THEN /\ ret' = Result("viFindNext", findList,
                                  "VI_ERROR_RSRC_NFOUND", 0)
                /\ UNCHANGED findLists
           ELSE \E descOk \in BOOLEAN :
                /\ ret' = [Result("viFindNext", findList, "VI_SUCCESS", 0)
                               EXCEPT !.desc =
                                   IF descOk
                                   THEN fl.descriptors[fl.current + 1]
                                   ELSE NoDesc]
                /\ findLists' = [findLists EXCEPT ![fi].current = @ + 1]
        /\ UNCHANGED <<initialized, sessions, nextHandle, transports,
                       issued, closedH, thr>>
        /\ UNCHANGED ioVars

(***************************************************************************)
(* The registry driven through the API, one call at a time                 *)
(***************************************************************************)
NoResult ==
    [op |-> "none", st |-> "VI_SUCCESS", out |-> 0, wasClosed |-> FALSE,
     desc |-> NoDesc]

RegInit ==
    /\ initialized = FALSE
    /\ sessions = [i \in Slots |-> ZeroSession]
    /\ findLists = [i \in FlSlots |-> ZeroFindList]
    /\ nextHandle = 1
    /\ transports = <<>>
    /\ ret = NoResult
    /\ issued = <<>>
    /\ closedH = {}

\* no thread is inside an open call, no transport call has been made
IoIdle ==
    /\ vx = ov_transport_tcpip_vxi11_create
    /\ hs = ov_transport_tcpip_hislip_create
    /\ ut = ov_transport_usbtmc_create(TRUE)
    /\ gpib = ov_transport_gpib_create(TRUE)
    /\ wire = NoWire
    /\ res = NoRes

Init ==
    /\ RegInit
    /\ thr = [t \in Threads |-> ThreadIdle]
    /\ fn = NoFn
    /\ IoIdle

Next ==
    \/ \E viOk \in BOOLEAN : viOpenDefaultRM(viOk)
    \/ \E sesn \in Handles, rsrcName \in RsrcNames : viOpen(sesn, rsrcName)
    \/ \E vi \in Handles : viClose(vi)
    \/ \E vi \in Handles : viRead(vi)
    \/ \E vi \in Handles : viWrite(vi)
    \/ \E vi \in Handles : viReadSTB(vi)
    \/ \E vi \in Handles : viClear(vi)
    \/ \E vi \in Handles, attribute \in Attributes :
          viGetAttribute(vi, attribute)
    \/ \E vi \in Handles, attribute \in Attributes, v \in AttrStates :
          viSetAttribute(vi, attribute, v)
    \/ \E rm \in Handles : viFindRsrc(rm)
    \/ \E fl \in Handles : viFindNext(fl)

Spec == Init /\ [][Next]_vars

(***************************************************************************)
(* Properties of the session registry                                      *)
(***************************************************************************)

C5_TransportOwnership ==
    /\ \A i \in Slots :
          (sessions[i].active
             /\ \E n \in DOMAIN issued : issued[n] = sessions[i].handle)
          => \/ sessions[i].isRM /\ sessions[i].transport = 0
             \/ /\ ~sessions[i].isRM
                /\ sessions[i].transport \in DOMAIN transports
                /\ transports[sessions[i].transport].opened
                /\ ~transports[sessions[i].transport].freed
                /\ transports[sessions[i].transport].closeCalls = 0
                /\ \A j \in Slots :
                      (j # i /\ sessions[j].active)
                          => sessions[j].transport # sessions[i].transport
    /\ \A t \in DOMAIN transports :
          /\ transports[t].closeCalls <= 1
          /\ transports[t].freed <=> transports[t].closeCalls = 1
          /\ transports[t].freed
                => \A i \in Slots : sessions[i].transport # t
    /\ \A h \in closedH :
          \A i \in Slots : ~(sessions[i].active /\ sessions[i].handle = h)

\* a Resource Manager, a live instrument session, and a transport that was
\* opened successfully and later released by viClose
C5_Witness ==
    /\ \E i \in Slots : sessions[i].active /\ sessions[i].isRM
    /\ \E i \in Slots :
          /\ sessions[i].active /\ sessions[i].transport # 0
          /\ transports[sessions[i].transport].opened
    /\ \E t \in DOMAIN transports :
          transports[t].opened /\ transports[t].freed
    /\ closedH # {}

\* C6: the transport viOpen creates follows the factory table on
\* (interface kind, is-hislip, is-socket): HiSLIP, Raw Socket, VXI-11 for
\* TCPIP, USBTMC for USB, Serial for ASRL, the GPIB dispatch for GPIB.
C6_FactoryTable ==
    \A t \in DOMAIN transports :
        \A i \in Slots :
            (sessions[i].active /\ sessions[i].transport = t)
            => transports[t].kind =
                 (IF sessions[i].resource.intfType = "TCPIP"
                  THEN IF sessions[i].resource.isHiSLIP THEN "HISLIP"
                       ELSE IF sessions[i].resource.isSocket THEN "RAW"
                       ELSE "VXI11"
                  ELSE IF sessions[i].resource.intfType = "USB"
                  THEN "USBTMC"
                  ELSE IF sessions[i].resource.intfType = "ASRL"
                  THEN "SERIAL"
                  ELSE "GPIB")

\* one call seen from find-list slot i: a list is created by viFindRsrc,
\* which hands out entry 0 or nothing; a list that stays keeps its entries
\* and its cursor moves only by one, with the call handing out the entry
\* the cursor stood on; a closed list's handle resolves to nothing
FindListStep(i) ==
    LET M == findLists[i]
        N == findLists'[i]
    IN  /\ N.active => N.current <= N.count
        /\ (~M.active /\ N.active)
              => /\ ret'.op = "viFindRsrc"
                 /\ \/ N.current = 0 /\ ret'.desc = NoDesc
                    \/ N.current = 1 /\ ret'.desc = N.descriptors[1]
        /\ (M.active /\ N.active)
              => /\ N.handle = M.handle
                 /\ N.descriptors = M.descriptors
                 /\ N.count = M.count
                 /\ \/ N.current = M.current
                    \/ /\ N.current = M.current + 1
                       /\ ret'.op = "viFindNext"
                       /\ ret'.st = "VI_SUCCESS"
                       /\ ret'.desc = M.descriptors[M.current + 1]
        /\ (M.active /\ ~N.active)
              => /\ ret'.op = "viClose"
                 /\ ov_findlist_find(findLists', M.handle) = 0

\* C20: the descriptors delivered for one find list, the one viFindRsrc
\* returns and then those of the successive viFindNext calls, are the
\* list's entries 0..count-1 in order, each once; the cursor never exceeds
\* count, and at the end viFindNext returns VI_ERROR_RSRC_NFOUND; after
\* viClose the handle resolves to no list (viFindNext returns
\* VI_ERROR_INV_OBJECT) and never resolves again.
C20_FindListDelivery ==
    [][/\ \A i \in FlSlots : FindListStep(i)
       /\ (ret'.op = "viFindNext" /\ ret'.st = "VI_SUCCESS")
             => \E i \in FlSlots :
                   /\ findLists[i].active /\ findLists'[i].active
                   /\ findLists[i].current < findLists[i].count
                   /\ findLists'[i].current = findLists[i].current + 1
       /\ (ret'.op = "viFindNext" /\ ret'.st = "VI_ERROR_RSRC_NFOUND")
             => /\ findLists' = findLists
                /\ \E i \in FlSlots :
                      /\ findLists[i].active
                      /\ findLists[i].current = findLists[i].count
       /\ (ret'.op = "viFindNext" /\ ret'.st = "VI_ERROR_INV_OBJECT")
             => findLists' = findLists
       /\ \A h \in 1..(nextHandle - 1) :
             ov_findlist_find(findLists, h) = 0
                 => ov_findlist_find(findLists', h) = 0]_vars

(***************************************************************************)
(* viFindRsrc over a fixed find expression and a fixed environment         *)
(***************************************************************************)
kIp == <<"1", ".", "1", ".", "1", ".", "1">>

kUsbRsrc ==
    kUSB \o <<"0">> \o SEP \o <<"0", "x", "0", "0", "0", "1">> \o SEP
        \o <<"0", "x", "0", "0", "0", "2">> \o SEP \o SEP \o <<"0">> \o SEP
        \o kINSTR

\* find expressions: none, everything, by interface, lower case, by
\* suffix, an exact name, one that nothing matches
DiscoverExprs ==
    {<<>>, kWild, kASRL \o kWild, <<"a", "s", "r", "l", "1">> \o kWild,
     kTCPIP \o kWild \o SEP \o kSOCKET, kUSB \o kWild,
     kASRL \o <<"1">> \o SEP \o kINSTR}

\* nothing on the bus; an instrument announced twice over LXI and once over
\* HiSLIP, one USB device and COM1 listed twice
DiscoverEnvs ==
    {[lxi |-> <<>>, hislip |-> <<>>, usb |-> <<>>, ports |-> <<>>],
     [lxi |-> <<[ipv4 |-> kIp, port |-> 5025], [ipv4 |-> kIp, port |-> 0],
                [ipv4 |-> <<>>, port |-> 80]>>,
      hislip |-> <<[ipv4 |-> kIp, port |-> 4880]>>,
      usb |-> <<kUsbRsrc>>, ports |-> <<1, 0, 1, 2>>]}

\* a machine of ManyPorts serial ports next to an LXI instrument
CrowdedEnv ==
    [lxi |-> <<[ipv4 |-> kIp, port |-> 5025]>>, hislip |-> <<>>,
     usb |-> <<>>, ports |-> [k \in 1..ManyPorts |-> k]]

DiscoverInit ==
    /\ RegInit
    /\ thr = [t \in Threads |-> ThreadIdle]
    /\ IoIdle
    /\ \/ fn \in [name : {"ov_discover"}, expr : DiscoverExprs,
                  env : DiscoverEnvs, done : {FALSE}]
       \/ fn \in [name : {"ov_discover"},
                  expr : {kWild, <<"a", "s", "r", "l", "1">> \o kWild},
                  env : {CrowdedEnv}, done : {FALSE}]

DiscoverNext ==
    \/ \E viOk \in BOOLEAN : viOpenDefaultRM(viOk)
    \/ \E rm \in Handles : viFindRsrc(rm)
    \/ \E vi \in Handles : viClose(vi)

SpecDiscover == DiscoverInit /\ [][DiscoverNext]_vars

\* the glob predicate: * stands for any run of characters, ? for any one
\* character, letters compare without regard to case
RECURSIVE GlobSem(_, _, _, _)
GlobSem(pat, str, p, s) ==
    IF p > Len(pat) THEN s > Len(str)
    ELSE IF pat[p] = "*"
    THEN \/ GlobSem(pat, str, p + 1, s)
         \/ s <= Len(str) /\ GlobSem(pat, str, p, s + 1)
    ELSE /\ s <= Len(str)
         /\ pat[p] = "?" \/ tolower(pat[p]) = tolower(str[s])
         /\ GlobSem(pat, str, p + 1, s + 1)

\* everything the discoverers emit, in the order ov_discover runs them
AllEmitted ==
    LET em == Emitted(fn.env) IN em.tcpip \o em.usb \o em.asrl

FirstAt(seq, d) == CHOOSE k \in 1..Len(seq) :
                       seq[k] = d /\ \A j \in 1..(k - 1) : seq[j] # d

EffectiveExpr == IF fn.expr = <<>> THEN kWild ELSE fn.expr

\* C21: the descriptor list discovery produces holds only descriptors that
\* match the find expression, holds none twice, keeps the order of first
\* insertion (each entry was first emitted after the entry before it) and
\* has at most 128 entries; when no descriptor matches,
\* viFindRsrc returns VI_ERROR_RSRC_NFOUND and leaves no find list allocated.
C21_DiscoveryList ==
    fn.name = "ov_discover" =>
        LET all == AllEmitted
            expr == EffectiveExpr
        IN  /\ \A i \in FlSlots :
                  findLists[i].active =>
                      LET ds == findLists[i].descriptors
                          at == [k \in 1..Len(ds) |->
                                    IF strchr(all, ds[k])
                                    THEN FirstAt(all, ds[k]) ELSE 0]
                      IN  /\ findLists[i].count = Len(ds)
                          /\ Len(ds) \in 1..128
                          /\ \A k \in 1..Len(ds) :
                                /\ GlobSem(expr, ds[k], 1, 1)
                                /\ at[k] > 0
                                /\ k > 1 => at[k - 1] < at[k]
            /\ (\A k \in 1..Len(all) : ~GlobSem(expr, all[k], 1, 1))
                  => /\ \A i \in FlSlots : ~findLists[i].active
                     /\ ret.op = "viFindRsrc"
                           => ret.st \in {"VI_ERROR_RSRC_NFOUND",
                                          "VI_ERROR_INV_OBJECT",
                                          "VI_ERROR_SYSTEM_ERROR"}

\* a full list: more than 128 distinct descriptors were emitted
C21_Witness ==
    /\ fn.name = "ov_discover"
    /\ Len(AllEmitted) > 128
    /\ ret.op = "viFindRsrc" /\ ret.st = "VI_SUCCESS"
    /\ \E i \in FlSlots : findLists[i].active /\ findLists[i].count = 128

(***************************************************************************)
(* Session defaults when a slot is taken again (session.c)                 *)
(***************************************************************************)
\* values a caller sets that differ from the defaults
OtherTimeouts == {266, 5000}
OtherTermChars == {0, 13}

\* the resource every open of this specification names
ReuseRsrc == kTCPIP \o SEP \o <<"h">> \o SEP \o <<"5">> \o SEP \o kSOCKET

\* the registry after viOpenDefaultRM, a successful viOpen and two
\* viSetAttribute calls on the opened session: handle 1 is the resource
\* manager in slot 1, handle 2 the session in slot 2
ReuseInit ==
    \E tmo \in OtherTimeouts, tc \in OtherTermChars :
        LET z == [i \in Slots |-> ZeroSession]
            a1 == ov_session_alloc(z, 1)
            s1 == [a1.sessions EXCEPT ![a1.slot].isRM = TRUE]
            a2 == ov_session_alloc(s1, a1.nextHandle)
            pr == ov_parse_rsrc(ReuseRsrc)
        IN  /\ initialized = TRUE
            /\ sessions = [a2.sessions EXCEPT
                               ![a2.slot].resource = pr.rsrc,
                               ![a2.slot].transport = 1,
                               ![a2.slot].timeout = tmo,
                               ![a2.slot].termChar = tc]
            /\ findLists = [i \in FlSlots |-> ZeroFindList]
            /\ nextHandle = a2.nextHandle
            /\ transports = <<[kind |-> ov_transport_create(pr.rsrc.intfType),
                               opened |-> TRUE, closeCalls |-> 0,
                               freed |-> FALSE]>>
            /\ issued = <<1, 2>>
            /\ closedH = {}
            /\ ret = [op |-> "viSetAttribute", st |-> "VI_SUCCESS", out |-> 0,
                      wasClosed |-> FALSE, desc |-> NoDesc]
            /\ thr = [t \in Threads |-> ThreadIdle]
            /\ fn = NoFn
            /\ IoIdle

ReuseNext ==
    \/ viOpenDefaultRM(TRUE)
    \/ \E sesn \in Handles : viOpen(sesn, ReuseRsrc)
    \/ \E vi \in Handles : viClose(vi)
    \/ \E vi \in Handles, v \in OtherTimeouts :
          viSetAttribute(vi, "VI_ATTR_TMO_VALUE", v)
    \/ \E vi \in Handles, v \in OtherTermChars :
          viSetAttribute(vi, "VI_ATTR_TERMCHAR", v)

SpecReuse == ReuseInit /\ [][ReuseNext]_vars

\* C23: every session returned by an open has timeout 2000 ms and
\* termination character 0x0A at the moment it is returned, also when it
\* occupies a slot whose previous session had other values set through
\* viSetAttribute.
C23_OpenDefaults ==
    (ret.op \in {"viOpen", "viOpenDefaultRM"} /\ ret.st = "VI_SUCCESS")
        => LET i == ov_session_find(sessions, ret.out)
           IN  /\ i # 0
               /\ sessions[i].timeout = 2000
               /\ sessions[i].termChar = 10

\* viOpen has just returned handle 3 in slot 2, the slot of the closed
\* session 2, whose timeout and termination character were never the
\* defaults under this specification
C23_Witness ==
    /\ ret.op = "viOpen" /\ ret.st = "VI_SUCCESS" /\ ret.out = 3
    /\ closedH = {2}
    /\ sessions[1].active /\ sessions[1].handle = 1
    /\ sessions[2].active /\ sessions[2].handle = 3

\* the handles of the sessions of ss that are live
LiveHandles(ss) == {ss[i].handle : i \in {k \in DOMAIN ss : ss[k].active}}

\* C39: when viOpen fails, whether on the handle passed, the resource
\* string, a full session table, the creation of the transport or its
\* open, the live handles and every live session are as before the call,
\* no slot is left allocated, a transport the call created has been closed
\* and freed, and the caller's handle is not written
C39_FailedOpenChangesNothing ==
    [][(ret'.op = "viOpen" /\ ret'.st # "VI_SUCCESS")
          => /\ LiveHandles(sessions') = LiveHandles(sessions)
             /\ \A i \in Slots : sessions[i].active
                                      => sessions'[i] = sessions[i]
             /\ \A i \in Slots : sessions'[i].active => sessions[i].active
             /\ findLists' = findLists
             /\ issued' = issued
             /\ ret'.out = 0
             /\ Len(transports') \in {Len(transports), Len(transports) + 1}
             /\ \A t \in 1..Len(transports) : transports'[t] = transports[t]
             /\ \A t \in (Len(transports) + 1)..Len(transports') :
                    transports'[t].freed]_vars

\* the open of the transport failed while the resource manager was the
\* only live session: the slot taken for the open is free again
C39_Witness ==
    /\ ret.op = "viOpen" /\ ret.st = "VI_ERROR_TMO"
    /\ sessions[1].active /\ sessions[1].isRM
    /\ ~sessions[2].active
    /\ transports # <<>>
    /\ transports[Len(transports)].freed
    /\ ~transports[Len(transports)].opened

SetAttrs ==
    {"VI_ATTR_TMO_VALUE", "VI_ATTR_TERMCHAR", "VI_ATTR_TERMCHAR_EN",
     "VI_ATTR_SEND_END_EN"}

\* the attributes only viGetAttribute knows
GetOnlyAttrs ==
    {"VI_ATTR_RSRC_NAME", "VI_ATTR_INTF_TYPE", "VI_ATTR_INTF_NUM",
     "VI_ATTR_RSRC_MANF_NAME", "VI_ATTR_RSRC_IMPL_VERSION"}

\* every attribute id explored; VI_ATTR_OTHER is one that neither function
\* knows
AllAttrs == SetAttrs \cup GetOnlyAttrs \cup {"VI_ATTR_OTHER"}

\* values passed to viSetAttribute: zero, and one wider than a byte
SetStates == {0, 266}

\* the handles passed: the resource manager, the instrument session, and
\* one that was never issued
AttrHandles == {1, 2, 3}

\* every attribute is read on every handle and set on the instrument
\* session and on the handle never issued; on the resource manager the
\* timeout is set
AttrNext ==
    \/ \E vi \in AttrHandles, attribute \in AllAttrs :
          viGetAttribute(vi, attribute)
    \/ \E vi \in AttrHandles \ {1}, attribute \in AllAttrs,
          v \in SetStates :
          viSetAttribute(vi, attribute, v)
    \/ \E v \in SetStates : viSetAttribute(1, "VI_ATTR_TMO_VALUE", v)

\* a resource manager and an instrument session are open
SpecAttr == ReuseInit /\ [][AttrNext]_vars

\* what viGetAttribute gives back after attribute was set to v
Stored(attribute, v) ==
    CASE attribute = "VI_ATTR_TMO_VALUE" -> v
      [] attribute = "VI_ATTR_TERMCHAR" -> v % 256
      [] OTHER -> v # 0

\* session slot i without the field that attribute names
Others(ss, i, attribute) ==
    [ss[i] EXCEPT
        !.timeout = IF attribute = "VI_ATTR_TMO_VALUE" THEN 0 ELSE @,
        !.termChar = IF attribute = "VI_ATTR_TERMCHAR" THEN 0 ELSE @,
        !.termCharEn = IF attribute = "VI_ATTR_TERMCHAR_EN" THEN FALSE ELSE @,
        !.sendEndEn = IF attribute = "VI_ATTR_SEND_END_EN" THEN FALSE ELSE @]

\* C38: viSetAttribute(h, a, v) on a live session h with a one of
\* TMO_VALUE, TERMCHAR, TERMCHAR_EN, SEND_END_EN succeeds, a following
\* viGetAttribute(h, a) returns v (its low 8 bits for TERMCHAR, whether it
\* is nonzero for the enables), and every other attribute of h, every
\* other session and the rest of the registry are unchanged; with any
\* other attribute id viSetAttribute returns VI_ERROR_NSUP_ATTR and changes
\* nothing, and so does viGetAttribute (given somewhere to store the
\* value) with an id it does not know
C38_AttributeFrame ==
    [][\A vi \in AttrHandles, a \in AllAttrs, v \in SetStates :
          LET i == ov_session_find(sessions, vi)
              g == GetAttribute(sessions', vi, a, TRUE)
              set == ret'.op = "viSetAttribute" /\ viSetAttribute(vi, a, v)
          IN  /\ (set /\ i # 0 /\ a \in SetAttrs)
                    => /\ ret'.st = "VI_SUCCESS"
                       /\ g.st = "VI_SUCCESS"
                       /\ g.out = Stored(a, v)
                       /\ Others(sessions', i, a) = Others(sessions, i, a)
                       /\ \A j \in Slots \ {i} : sessions'[j] = sessions[j]
                       /\ \A b \in AllAttrs \ {a} :
                              GetAttribute(sessions', vi, b, TRUE)
                                  = GetAttribute(sessions, vi, b, TRUE)
                       /\ UNCHANGED <<initialized, findLists, nextHandle,
                                      transports>>
              /\ (set /\ i # 0 /\ a \notin SetAttrs)
                    => /\ ret'.st = "VI_ERROR_NSUP_ATTR"
                       /\ UNCHANGED <<initialized, sessions, findLists,
                                      nextHandle, transports>>
              /\ (i # 0 /\ a \notin SetAttrs \cup GetOnlyAttrs)
                    => GetAttribute(sessions, vi, a, TRUE).st
                           = "VI_ERROR_NSUP_ATTR"
              /\ ret'.op = "viGetAttribute"
                    => UNCHANGED <<initialized, sessions, findLists,
                                   nextHandle, transports>>]_vars

\* the instrument session's termination character was set from 266 and
\* its timeout to 0, the resource manager's timeout being the default
C38_Witness ==
    /\ ret.op = "viSetAttribute" /\ ret.st = "VI_SUCCESS"
    /\ sessions[2].active /\ sessions[2].termChar = 10
    /\ sessions[2].timeout = 0
    /\ sessions[1].active /\ sessions[1].timeout = 2000

(***************************************************************************)
(* ov_parse_rsrc called on its own (session.c)                             *)
(***************************************************************************)
\* A resource string is built from its "::"-separated fields.  A field is
\* the keyword it begins with (k, empty when it has none), the payload that
\* follows (t) and the number the payload spells (v, 0 when it spells none).
Fld(k, t, v) == [k |-> k, t |-> t, v |-> v]
Pay(t) == Fld(<<>>, t, 0)
Key(k) == Fld(k, <<>>, 0)

toupper(c) == IF IndexIn(Lowers, c) # 0 THEN Uppers[IndexIn(Lowers, c)] ELSE c

\* the keyword of a field in the letter case asked for
Cased(k, mode) ==
    [i \in 1..Len(k) |-> IF mode = "upper" THEN toupper(k[i])
                         ELSE IF mode = "lower" THEN tolower(k[i])
                         ELSE k[i]]

RECURSIVE Joined(_, _, _)
Joined(f, mode, i) ==
    IF i > Len(f) THEN <<>>
    ELSE SEP \o Cased(f[i].k, mode) \o f[i].t \o Joined(f, mode, i + 1)

\* the string of a form: head field, then the fields, each after a "::"
Text(form, mode) ==
    Cased(form.head.k, mode) \o form.head.t \o Joined(form.f, mode, 1)

kInst1 == <<"i", "n", "s", "t", "1">>
kInstr5 == <<"I", "N", "S", "T", "R", "5">>
kPort == <<"5", "0", "2", "5">>

\* what may follow the host of a TCPIP string
TcpipTails ==
    { <<>>,
      <<Key(kINSTR)>>,
      <<Fld(kHISLIP, <<"0">>, 0)>>,
      <<Fld(kHISLIP, <<"0">>, 0), Key(kINSTR)>>,
      <<Pay(kInst1)>>,
      <<Pay(kInst1), Key(kINSTR)>>,
      <<Pay(kInstr5), Key(kINSTR)>>,
      <<Fld(<<>>, kPort, 5025), Key(kSOCKET)>>,
      <<Fld(<<>>, kPort, 5025), Pay(kInst1), Key(kINSTR)>>,
      <<Key(kSOCKET)>> }

TcpipForms ==
    { [head |-> Fld(kTCPIP, n.t, n.v), f |-> <<Pay(host)>> \o tail] :
          n \in {Pay(<<>>), Fld(<<>>, <<"2">>, 2)},
          host \in {<<"h">>, <<"1", ".", "2">>},
          tail \in TcpipTails }

UsbIds ==
    { Fld(<<>>, <<"0", "x", "1", "2", "3", "4">>, 4660),
      Fld(<<>>, <<"4", "6", "6", "0">>, 4660),
      Fld(<<>>, <<"0", "X", "0", "0", "f", "F">>, 255) }

UsbForms ==
    { [head |-> Fld(kUSB, n.t, n.v),
       f |-> <<vid, pid, Pay(serial)>> \o intf \o <<Key(kINSTR)>>] :
          n \in {Pay(<<>>), Fld(<<>>, <<"0">>, 0)},
          vid \in UsbIds, pid \in UsbIds,
          serial \in {<<>>, <<"S", "N", "1">>},
          intf \in {<<>>, <<Fld(<<>>, <<"1">>, 1)>>} }

AsrlForms ==
    { [head |-> Fld(kASRL, n.t, n.v), f |-> <<Key(kINSTR)>>] :
          n \in {Pay(<<>>), Fld(<<>>, <<"3">>, 3)} }

GpibForms ==
    { [head |-> Fld(kGPIB, n.t, n.v),
       f |-> <<pri>> \o sec \o <<Key(kINSTR)>>] :
          n \in {Pay(<<>>), Fld(<<>>, <<"0">>, 0), Fld(<<>>, <<"1">>, 1)},
          pri \in {Fld(<<>>, <<"2", "2">>, 22), Fld(<<>>, <<"1">>, 1)},
          sec \in {<<>>, <<Fld(<<>>, <<"2">>, 2)>>,
                   <<Fld(<<>>, <<"0">>, 0)>>} }

\* strings whose interface keyword is none of the four
OtherForms ==
    { [head |-> Pay(h), f |-> <<Pay(<<"x">>)>>] :
          h \in { <<"F", "O", "O", "B", "A", "R">>, <<"T", "C", "P">>,
                  <<"V", "I", "S", "A">>, <<>>,
                  kASRL \o <<"X">>, kGPIB \o <<"X">>, kUSB \o <<"X">>,
                  kTCPIP \o <<"X">> } }

ParseForms ==
    TcpipForms \cup UsbForms \cup AsrlForms \cup GpibForms \cup OtherForms

NoParse == [st |-> "none", rsrc |-> ZeroResource]

\* the call as the caller makes it: first is the outcome of the earlier
\* call whose string or descriptor this call's string was made from
ParseCall(form, rsrcName, via, first) ==
    [name |-> "ov_parse_rsrc", form |-> form, rsrcName |-> rsrcName,
     via |-> via, first |-> first, done |-> FALSE, st |-> "none",
     rsrc |-> ZeroResource]

ov_parse_rsrc_call ==
    /\ fn.name = "ov_parse_rsrc" /\ ~fn.done
    /\ LET pr == ov_parse_rsrc(fn.rsrcName)
       IN  fn' = [fn EXCEPT !.done = TRUE, !.st = pr.st, !.rsrc = pr.rsrc]
    /\ UNCHANGED <<initialized, sessions, findLists, nextHandle, transports,
                   ret, issued, closedH, thr, vx, hs, ut, gpib, wire, res>>

\* the caller writes the keywords of the string in another letter case and
\* has it parsed again
Recase ==
    /\ fn.name = "ov_parse_rsrc" /\ fn.done /\ fn.via = "caller"
    /\ \E mode \in {"upper", "lower"} :
          fn' = ParseCall(fn.form, Text(fn.form, mode), "recased",
                          [st |-> fn.st, rsrc |-> fn.rsrc])
    /\ UNCHANGED <<initialized, sessions, findLists, nextHandle, transports,
                   ret, issued, closedH, thr, vx, hs, ut, gpib, wire, res>>

\* the number as printf("%d") writes it
DecInt(n) == IF n < 0 THEN <<"-">> \o Dec(0 - n) ELSE Dec(n)

\* the number as printf("0x%04X") writes it
Hex4(n) ==
    LET hx == Digits \o UpperHex
    IN  <<"0", "x", hx[((n \div 4096) % 16) + 1], hx[((n \div 256) % 16) + 1],
          hx[((n \div 16) % 16) + 1], hx[(n % 16) + 1]>>

\* a descriptor written back as a resource string of the grammar: every
\* optional field is written out, a TCPIP port other than the VXI-11 one is
\* written before the device name
Serialize(r) ==
    IF r.intfType = "TCPIP"
    THEN kTCPIP \o Dec(r.intfNum) \o SEP \o r.host \o SEP \o
         (IF r.isHiSLIP THEN r.deviceName \o SEP \o kINSTR
          ELSE IF r.isSocket THEN Dec(r.port) \o SEP \o kSOCKET
          ELSE IF r.port = 111 THEN r.deviceName \o SEP \o kINSTR
          ELSE Dec(r.port) \o SEP \o r.deviceName \o SEP \o kINSTR)
    ELSE IF r.intfType = "USB"
    THEN kUSB \o Dec(r.intfNum) \o SEP \o Hex4(r.usbVid) \o SEP \o
         Hex4(r.usbPid) \o SEP \o r.usbSerial \o SEP \o
         DecInt(r.usbIntfNum) \o SEP \o kINSTR
    ELSE IF r.intfType = "ASRL"
    THEN kASRL \o DecInt(r.comPort) \o SEP \o kINSTR
    ELSE kGPIB \o Dec(r.intfNum) \o SEP \o DecInt(r.gpibAddr) \o
         (IF r.gpibSecAddr = 0 - 1 THEN <<>>
          ELSE SEP \o DecInt(r.gpibSecAddr)) \o SEP \o kINSTR

\* the caller writes the descriptor it was given back as a string and has
\* that string parsed
Reserialize ==
    /\ fn.name = "ov_parse_rsrc" /\ fn.done /\ fn.via = "caller"
    /\ fn.st = "VI_SUCCESS"
    /\ fn' = ParseCall(fn.form, Serialize(fn.rsrc), "serialized",
                       [st |-> fn.st, rsrc |-> fn.rsrc])
    /\ UNCHANGED <<initialized, sessions, findLists, nextHandle, transports,
                   ret, issued, closedH, thr, vx, hs, ut, gpib, wire, res>>

\* part_001: the port tcpip_raw_open connects to
tcpip_raw_port(rsrc) ==
    IF rsrc.isSocket /\ rsrc.port = 0 THEN 5025 ELSE rsrc.port

ParseInit ==
    /\ RegInit
    /\ thr = [t \in Threads |-> ThreadIdle]
    /\ IoIdle
    /\ \E form \in ParseForms :
          fn = ParseCall(form, Text(form, "asis"), "caller", NoParse)

\* the parser on its own, and viOpen on the caller's string
ParseNext ==
    \/ ov_parse_rsrc_call
    \/ Recase
    \/ Reserialize
    \/ viOpenDefaultRM(TRUE)
    \/ \E sesn \in Handles : fn.via = "caller" /\ viOpen(sesn, fn.rsrcName)

SpecParse == ParseInit /\ [][ParseNext]_vars

\* the call under way is over; its string was written by the caller
Parsed == fn.name = "ov_parse_rsrc" /\ fn.done
ParsedAsWritten == Parsed /\ fn.via = "caller"

\* two descriptors agree in every field other than the preserved string
SameFields(a, b) == [a EXCEPT !.raw = <<>>] = [b EXCEPT !.raw = <<>>]

\* the token of field i of the caller's string
Token(i) == fn.form.f[i].k \o fn.form.f[i].t
IsKey(i, k) == fn.form.f[i].k = k /\ fn.form.f[i].t = <<>>

\* C24: changing the letter case of the keywords of a resource string, the
\* payload fields untouched, yields the same parse status and the same
\* descriptor fields.
C24_KeywordCase ==
    (Parsed /\ fn.via = "recased")
        => /\ fn.st = fn.first.st
           /\ SameFields(fn.rsrc, fn.first.rsrc)

C26_TcpipFields ==
    (ParsedAsWritten /\ fn.form.head.k = kTCPIP)
        => LET n == Len(fn.form.f)
               r == fn.rsrc
           IN  /\ fn.st = "VI_SUCCESS"
               /\ ~(r.isSocket /\ r.isHiSLIP)
               /\ IF n = 1 \/ IsKey(2, kINSTR)
                  THEN /\ r.deviceName = kInst0 /\ r.port = 111
                       /\ ~r.isSocket /\ ~r.isHiSLIP
                  ELSE IF fn.form.f[2].k = kHISLIP
                  THEN r.isHiSLIP /\ r.port = 4880 /\ r.deviceName = Token(2)
                  ELSE IF n = 2 \/ IsKey(3, kINSTR)
                  THEN r.deviceName = Token(2) /\ r.port = 111
                  ELSE IF IsKey(3, kSOCKET)
                  THEN r.port = fn.form.f[2].v /\ r.isSocket
                  ELSE r.port = fn.form.f[2].v /\ r.deviceName = kInst0

\* C27: TCPIP[n]::host::SOCKET, a SOCKET string without a port field, is
\* parsed as a raw-socket resource, and the raw-socket transport opened
\* for it connects to port 5025.
C27_SocketDefaultPort ==
    (ParsedAsWritten /\ fn.form.head.k = kTCPIP /\ Len(fn.form.f) = 2
        /\ IsKey(2, kSOCKET))
        => /\ fn.st = "VI_SUCCESS"
           /\ fn.rsrc.isSocket
           /\ ov_transport_create_for_rsrc(fn.rsrc) = "RAW"
           /\ tcpip_raw_port(fn.rsrc) = 5025

\* C28: USB[n]::vid::pid::serial[::intf]::INSTR yields the numbers of the
\* vid and pid fields (0x hexadecimal or decimal), the third field as the
\* serial, and intf as the interface number whenever the field is there.
C28_UsbFields ==
    (ParsedAsWritten /\ fn.form.head.k = kUSB)
        => /\ fn.st = "VI_SUCCESS"
           /\ fn.rsrc.usbVid = fn.form.f[1].v
           /\ fn.rsrc.usbPid = fn.form.f[2].v
           /\ fn.rsrc.usbSerial = Token(3)
           /\ (Len(fn.form.f) = 5 => fn.rsrc.usbIntfNum = fn.form.f[4].v)

\* C29: GPIB[n]::primary[::secondary]::INSTR yields board n (0 without an
\* index), the primary field as primary address, and the secondary field
\* as secondary address, -1 when there is none.
C29_GpibFields ==
    (ParsedAsWritten /\ fn.form.head.k = kGPIB)
        => /\ fn.st = "VI_SUCCESS"
           /\ fn.rsrc.intfNum = fn.form.head.v
           /\ fn.rsrc.gpibAddr = fn.form.f[1].v
           /\ fn.rsrc.gpibSecAddr =
                  IF Len(fn.form.f) = 3 THEN fn.form.f[2].v ELSE 0 - 1

\* GPIB1::22::2::INSTR has been parsed
C29_Witness ==
    /\ ParsedAsWritten /\ fn.form.head.k = kGPIB
    /\ fn.rsrc.intfNum = 1 /\ fn.rsrc.gpibAddr = 22
    /\ fn.rsrc.gpibSecAddr = 2

\* C30: ov_parse_rsrc fails with VI_ERROR_INV_RSRC_NAME on every string
\* whose interface keyword is none of TCPIP, USB, ASRL and GPIB in any
\* letter case, and viOpen on such a string returns that error.
C30_UnknownKeyword ==
    fn.form.head.k = <<>>
        => /\ (Parsed /\ fn.via # "serialized")
                  => fn.st = "VI_ERROR_INV_RSRC_NAME"
           /\ (ret.op = "viOpen" /\ ret.st # "VI_ERROR_INV_OBJECT")
                  => ret.st = "VI_ERROR_INV_RSRC_NAME"

(***************************************************************************)
(* dns_parse_name (discovery.c), one pass of its loop at a time            *)
(***************************************************************************)
\* bytes of the longest message explored
MaxPacket == 4

\* sizeof(tmp), sizeof(rname), sizeof(rdata_name)
DNS_NAME_SIZE == 256

\* the pointer indicator: the two high bits of a length byte
DNS_POINTER == 192

\* messages: label lengths 0..2, pointers (indicator, then target 0..3)
DnsBytes == {0, 1, 2, 3, DNS_POINTER}

DnsPackets ==
    UNION {[1..n -> DnsBytes] : n \in 0..MaxPacket}

\* buf[offset], offsets counted from 0
ByteAt(buf, offset) == buf[offset + 1]

\* the call as it is entered: opos, followed_ptr and orig_offset of the
\* function's locals; rv is the value returned once done; pass is the parity
\* of the loop passes made, so that a pass that leaves every local as it
\* was is a step all the same
DnsCall(buf, offset) ==
    [name |-> "dns_parse_name", buf |-> buf, offset |-> offset,
     opos |-> 0, followed_ptr |-> FALSE, orig_offset |-> 0 - 1,
     pass |-> 0, done |-> FALSE, rv |-> 0]

DnsReturn(c, rv) == [c EXCEPT !.done = TRUE, !.rv = rv, !.pass = 0]

\* one evaluation of the loop condition and, when it holds, of the body
dns_parse_name_loop ==
    LET buflen == Len(fn.buf)
        len == ByteAt(fn.buf, fn.offset)
        dot == IF fn.opos > 0 /\ fn.opos < DNS_NAME_SIZE - 1
               THEN fn.opos + 1 ELSE fn.opos
        copy == IF dot + len >= DNS_NAME_SIZE
                THEN DNS_NAME_SIZE - dot - 1 ELSE len
        exit(c) == DnsReturn(c, IF c.followed_ptr THEN c.orig_offset
                                ELSE c.offset)
    IN  /\ fn.name = "dns_parse_name"
        /\ ~fn.done
        /\ fn' =
             IF fn.offset >= buflen THEN exit(fn)
             ELSE IF len = 0 THEN exit([fn EXCEPT !.offset = @ + 1])
             ELSE IF len >= DNS_POINTER
             THEN IF fn.offset + 1 >= buflen THEN DnsReturn(fn, 0 - 1)
                  ELSE [fn EXCEPT
                           !.pass = 1 - @,
                           !.orig_offset = IF fn.followed_ptr THEN @
                                           ELSE fn.offset + 2,
                           !.followed_ptr = TRUE,
                           !.offset = (len - DNS_POINTER) * 256
                                          + ByteAt(fn.buf, fn.offset + 1)]
             ELSE [fn EXCEPT !.pass = 1 - @, !.offset = @ + 1 + len,
                             !.opos = dot + copy]
        /\ UNCHANGED <<initialized, sessions, findLists, nextHandle,
                       transports, ret, issued, closedH, thr, vx, hs, ut,
                       gpib, wire, res>>

DnsInit ==
    /\ RegInit
    /\ thr = [t \in Threads |-> ThreadIdle]
    /\ IoIdle
    /\ \E buf \in DnsPackets : fn = DnsCall(buf, 0)

DnsNext == dns_parse_name_loop

\* the function runs on: its loop is not suspended forever
SpecDns == DnsInit /\ [][DnsNext]_vars /\ WF_vars(DnsNext)

\* C22: dns_parse_name terminates on every input packet, also on packets
\* whose compression pointers form a cycle: it follows a bounded number of
\* pointers and then returns.
C22_ParseNameTerminates == <>fn.done

(***************************************************************************)
(* Two threads inside viOpenDefaultRM / viOpen.  session.c takes no lock,  *)
(* so the loads and stores of ov_session_alloc interleave freely.          *)
(***************************************************************************)
\* a thread enters viOpenDefaultRM
T_EnterOpenDefaultRM(t) ==
    /\ thr[t].pc = "idle"
    /\ thr' = [thr EXCEPT ![t].pc = "checkInit",
                          ![t].op = "viOpenDefaultRM"]
    /\ UNCHANGED <<regVars, ioVars>>

\* viOpenDefaultRM: if (!s->initialized)
T_CheckInit(t) ==
    /\ thr[t].pc = "checkInit"
    /\ thr' = [thr EXCEPT ![t].pc = IF initialized THEN "scan" ELSE "reset",
                          ![t].i = 1]
    /\ UNCHANGED <<regVars, ioVars>>

\* viOpenDefaultRM: memset(s, 0, ...); nextHandle = 1; initialized = true
T_Reset(t) ==
    /\ thr[t].pc = "reset"
    /\ sessions' = [i \in Slots |-> ZeroSession]
    /\ findLists' = [i \in FlSlots |-> ZeroFindList]
    /\ nextHandle' = 1
    /\ initialized' = TRUE
    /\ thr' = [thr EXCEPT ![t].pc = "scan", ![t].i = 1]
    /\ UNCHANGED <<transports, ret, issued, closedH, ioVars>>

\* viOpen up to the call of ov_session_alloc: lookup of the resource
\* manager and parse of the resource string
T_EnterOpen(t, sesn, rsrcName) ==
    LET rm == ov_session_find(sessions, sesn)
        pr == ov_parse_rsrc(rsrcName)
    IN  /\ thr[t].pc = "idle"
        /\ IF rm = 0 \/ ~sessions[IF rm = 0 THEN 1 ELSE rm].isRM
           THEN thr' = [thr EXCEPT ![t].pc = "done", ![t].op = "viOpen",
                                   ![t].st = "VI_ERROR_INV_OBJECT"]
           ELSE IF pr.st # "VI_SUCCESS"
           THEN thr' = [thr EXCEPT ![t].pc = "done", ![t].op = "viOpen",
                                   ![t].st = pr.st]
           ELSE thr' = [thr EXCEPT ![t].pc = "scan", ![t].op = "viOpen",
                                   ![t].rsrc = pr.rsrc, ![t].i = 1]
        /\ UNCHANGED <<regVars, ioVars>>

\* ov_session_alloc: one turn of the for loop, if (!s->sessions[i].active)
T_Scan(t) ==
    /\ thr[t].pc = "scan"
    /\ IF thr[t].i > MaxSessions
       THEN thr' = [thr EXCEPT ![t].pc = "done", ![t].st = "VI_ERROR_ALLOC",
                                ![t].vi = 0]
       ELSE IF ~sessions[thr[t].i].active
       THEN thr' = [thr EXCEPT ![t].pc = "memset"]
       ELSE thr' = [thr EXCEPT ![t].i = @ + 1]
    /\ UNCHANGED <<regVars, ioVars>>

\* ov_session_alloc: memset(&s->sessions[i], 0, sizeof(OvSession))
T_Memset(t) ==
    /\ thr[t].pc = "memset"
    /\ sessions' = [sessions EXCEPT ![thr[t].i] = ZeroSession]
    /\ thr' = [thr EXCEPT ![t].pc = "activate"]
    /\ UNCHANGED <<initialized, findLists, nextHandle, transports, ret,
                   issued, closedH, ioVars>>

\* ov_session_alloc: s->sessions[i].active = true
T_Activate(t) ==
    /\ thr[t].pc = "activate"
    /\ sessions' = [sessions EXCEPT ![thr[t].i].active = TRUE]
    /\ thr' = [thr EXCEPT ![t].pc = "load"]
    /\ UNCHANGED <<initialized, findLists, nextHandle, transports, ret,
                   issued, closedH, ioVars>>

\* ov_session_alloc: the load of s->nextHandle++
T_Load(t) ==
    /\ thr[t].pc = "load"
    /\ thr' = [thr EXCEPT ![t].pc = "incr", ![t].h = nextHandle]
    /\ UNCHANGED <<regVars, ioVars>>

\* ov_session_alloc: the store of s->nextHandle++
T_Incr(t) ==
    /\ thr[t].pc = "incr"
    /\ nextHandle' = thr[t].h + 1
    /\ thr' = [thr EXCEPT ![t].pc = "store"]
    /\ UNCHANGED <<initialized, sessions, findLists, transports, ret,
                   issued, closedH, ioVars>>

\* ov_session_alloc: the store to handle and the four defaults
T_Store(t) ==
    /\ thr[t].pc = "store"
    /\ sessions' = [sessions EXCEPT ![thr[t].i] =
           [@ EXCEPT !.handle = thr[t].h, !.timeout = 2000, !.termChar = 10,
                     !.termCharEn = FALSE, !.sendEndEn = TRUE]]
    /\ thr' = [thr EXCEPT ![t].pc = "finish"]
    /\ UNCHANGED <<initialized, findLists, nextHandle, transports, ret,
                   issued, closedH, ioVars>>

\* viOpenDefaultRM after ov_session_alloc: sess->isRM = true; *vi = handle
T_FinishOpenDefaultRM(t) ==
    /\ thr[t].pc = "finish"
    /\ thr[t].op = "viOpenDefaultRM"
    /\ sessions' = [sessions EXCEPT ![thr[t].i].isRM = TRUE]
    /\ thr' = [thr EXCEPT ![t].pc = "done", ![t].st = "VI_SUCCESS",
                                ![t].vi = sessions[thr[t].i].handle]
    /\ UNCHANGED <<initialized, findLists, nextHandle, transports, ret,
                   issued, closedH, ioVars>>

\* viOpen after ov_session_alloc: resource, transport create and open
T_FinishOpen(t, createOk, openSt) ==
    LET i == thr[t].i
        kind == ov_transport_create(thr[t].rsrc.intfType)
        tid == Len(transports) + 1
        ss0 == [sessions EXCEPT ![i].resource = thr[t].rsrc]
        ss1 == [ss0 EXCEPT ![i].transport = tid]
        tr1 == Append(transports,
                      [kind |-> kind, opened |-> openSt = "VI_SUCCESS",
                       closeCalls |-> 0, freed |-> FALSE])
        fr == ov_session_free(ss1, tr1, i)
    IN  /\ thr[t].pc = "finish"
        /\ thr[t].op = "viOpen"
        /\ IF ~createOk \/ kind = "NULL"
           THEN /\ sessions' = [ss0 EXCEPT ![i] = ZeroSession]
                /\ UNCHANGED transports
                /\ thr' = [thr EXCEPT ![t].pc = "done", ![t].vi = 0,
                                      ![t].st = "VI_ERROR_RSRC_NFOUND"]
           ELSE IF openSt # "VI_SUCCESS"
           THEN /\ sessions' = fr.sessions
                /\ transports' = fr.transports
                /\ thr' = [thr EXCEPT ![t].pc = "done", ![t].st = openSt,
                                ![t].vi = 0]
           ELSE /\ sessions' = ss1
                /\ transports' = tr1
                /\ thr' = [thr EXCEPT ![t].pc = "done", ![t].st = "VI_SUCCESS",
                                ![t].vi = ss1[i].handle]
        /\ UNCHANGED <<initialized, findLists, nextHandle, ret, issued,
                       closedH, ioVars>>

\* resource manager sessions 1 .. k are open, nothing else has happened
ConcInit ==
    \E k \in 0..MaxSessions :
        /\ initialized = (k > 0)
        /\ sessions = [i \in Slots |->
               IF i <= k
               THEN [ZeroSession EXCEPT !.active = TRUE, !.isRM = TRUE,
                                        !.handle = i, !.timeout = 2000,
                                        !.termChar = 10, !.sendEndEn = TRUE]
               ELSE ZeroSession]
        /\ findLists = [i \in FlSlots |-> ZeroFindList]
        /\ nextHandle = k + 1
        /\ transports = <<>>
        /\ ret = NoResult
        /\ issued = [i \in 1..k |-> i]
        /\ closedH = {}
        /\ thr = [t \in Threads |-> ThreadIdle]
        /\ fn = NoFn
        /\ IoIdle

ConcNext ==
    \E t \in Threads :
        \/ T_EnterOpenDefaultRM(t)
        \/ T_CheckInit(t)
        \/ T_Reset(t)
        \/ \E sesn \in Handles, rsrcName \in RsrcNames :
               T_EnterOpen(t, sesn, rsrcName)
        \/ T_Scan(t)
        \/ T_Memset(t)
        \/ T_Activate(t)
        \/ T_Load(t)
        \/ T_Incr(t)
        \/ T_Store(t)
        \/ T_FinishOpenDefaultRM(t)
        \/ \E createOk \in BOOLEAN, openSt \in OpenStatuses :
               T_FinishOpen(t, createOk, openSt)

SpecConc == ConcInit /\ [][ConcNext]_vars

\* C4: when two threads call viOpen or viOpenDefaultRM concurrently, the two
\* successful calls obtain different slots and different handles in every
\* interleaving of the steps of ov_session_alloc
C4_ConcurrentOpensDistinct ==
    \A t, u \in Threads :
        (/\ t # u
         /\ thr[t].pc = "done" /\ thr[t].st = "VI_SUCCESS"
         /\ thr[u].pc = "done" /\ thr[u].st = "VI_SUCCESS")
        => (thr[t].i # thr[u].i /\ thr[t].vi # thr[u].vi)

(***************************************************************************)
(* VXI-11 transport (tcpip_vxi11.c)                                        *)
(***************************************************************************)
PORTMAP_PROC_GETPORT == 3
PORTMAP_PORT == 111
VXI11_PROC_CREATE_LINK == 10
VXI11_PROC_DEVICE_WRITE == 11
VXI11_PROC_DEVICE_READ == 12
VXI11_PROC_DEVICE_READSTB == 13
VXI11_PROC_DEVICE_CLEAR == 15
VXI11_PROC_DESTROY_LINK == 23
VXI11_FLAG_END == 8
VXI11_REASON_REQCNT == 1
VXI11_REASON_CHR == 2
VXI11_REASON_END == 4

\* reason & bit, for a single-bit mask
HasBit(reason, bit) == (reason \div bit) % 2 = 1

Min(a, b) == IF a < b THEN a ELSE b

\* how one RPC round trip can go: malloc of the frame fails, rm_recv times
\* out, the reply does not parse, or all is well
CallOutcomes == {"ok", "alloc", "tmo", "parse"}

\* status of a round trip that went as outcome says; "conn" is a failed
\* connect to the portmapper, "send" a frame that rm_send could not send
OutcomeStatus(outcome) ==
    CASE outcome = "ok" -> "VI_SUCCESS"
      [] outcome = "alloc" -> "VI_ERROR_ALLOC"
      [] outcome = "tmo" -> "VI_ERROR_TMO"
      [] outcome = "parse" -> "VI_ERROR_IO"
      [] outcome = "conn" -> "VI_ERROR_TMO"
      [] outcome = "send" -> "VI_ERROR_IO"

\* the latest call put on the wire, <<>> when there is none
LastCall(w) ==
    IF w.msgs # <<>> THEN <<w.msgs[Len(w.msgs)]>> ELSE w.prev

\* the wire at the start of a transport operation
NewOp(w) == [prev |-> LastCall(w), msgs |-> <<>>]

\* a plausible slip: the xid advances only when the round trip succeeded
vxi11_call_retry(impl, proc, flags, size, outcome) ==
    [impl |-> [impl EXCEPT !.xid = IF outcome = "ok" THEN Add32(@, 1) ELSE @,
                           !.calls = @ + 1],
     st |-> OutcomeStatus(outcome),
     msgs |-> IF outcome = "alloc" THEN <<>>
              ELSE <<[proc |-> proc, xid |-> impl.xid, flags |-> flags,
                      size |-> size, st |-> OutcomeStatus(outcome)]>>]

\* one RPC call: xid = impl->xid++, frame built and sent, reply received
\* and validated
vxi11_call(impl, proc, flags, size, outcome) ==
    [impl |-> [impl EXCEPT !.xid = Add32(@, 1), !.calls = @ + 1],
     st |-> OutcomeStatus(outcome),
     msgs |-> IF outcome = "alloc" THEN <<>>
              ELSE <<[proc |-> proc, xid |-> impl.xid, flags |-> flags,
                      size |-> size, st |-> OutcomeStatus(outcome)]>>]

\* one thing vxi11_open did to a TCP connection: a connect to port, a call
\* made on the connection to port, a close of it; val is the port number
\* GETPORT returned or the maxRecvSize CREATE_LINK reported
Step(do, port, ok, val) == [do |-> do, port |-> port, ok |-> ok, val |-> val]

\* a plausible slip: the portmapper connection is closed only after a reply
\* that parsed
vxi11_getport_leak(impl, outcome, port) ==
    IF outcome = "conn"
    THEN [impl |-> impl, st |-> "VI_ERROR_TMO", msgs |-> <<>>, port |-> 0,
          steps |-> <<Step("connect", PORTMAP_PORT, FALSE, 0)>>]
    ELSE [impl |-> [impl EXCEPT !.xid = Add32(@, 1), !.calls = @ + 1],
          st |-> IF outcome # "ok" THEN OutcomeStatus(outcome)
                 ELSE IF port = 0 \/ port > 65535 THEN "VI_ERROR_RSRC_NFOUND"
                 ELSE "VI_SUCCESS",
          msgs |-> <<[proc |-> PORTMAP_PROC_GETPORT, xid |-> impl.xid,
                      flags |-> 0, size |-> 0,
                      st |-> OutcomeStatus(outcome)]>>,
          port |-> port,
          steps |-> <<Step("connect", PORTMAP_PORT, TRUE, 0),
                      Step("GETPORT", PORTMAP_PORT, outcome = "ok",
                           IF outcome = "ok" THEN port ELSE 0)>>
                    \o IF outcome = "ok"
                       THEN <<Step("close", PORTMAP_PORT, TRUE, 0)>>
                       ELSE <<>>]

\* GETPORT on a transient connection to the portmapper: the connection is
\* closed when the send fails and after rm_recv, whatever it returned
vxi11_getport(impl, outcome, port) ==
    IF outcome = "conn"
    THEN [impl |-> impl, st |-> "VI_ERROR_TMO", msgs |-> <<>>, port |-> 0,
          steps |-> <<Step("connect", PORTMAP_PORT, FALSE, 0)>>]
    ELSE [impl |-> [impl EXCEPT !.xid = Add32(@, 1), !.calls = @ + 1],
          st |-> IF outcome # "ok" THEN OutcomeStatus(outcome)
                 ELSE IF port = 0 \/ port > 65535 THEN "VI_ERROR_RSRC_NFOUND"
                 ELSE "VI_SUCCESS",
          msgs |-> <<[proc |-> PORTMAP_PROC_GETPORT, xid |-> impl.xid,
                      flags |-> 0, size |-> 0,
                      st |-> OutcomeStatus(outcome)]>>,
          port |-> port,
          steps |-> <<Step("connect", PORTMAP_PORT, TRUE, 0),
                      Step("GETPORT", PORTMAP_PORT, outcome = "ok",
                           IF outcome = "ok" THEN port ELSE 0),
                      Step("close", PORTMAP_PORT, TRUE, 0)>>]

\* values of time(NULL) ^ impl: an ordinary one, one whose low half is about
\* to carry, one about to wrap
Seeds == {<<4660, 22136>>, <<0, 65535>>, <<65535, 65533>>}
\* error fields of a reply
Errors == {0, 11}

\* *retCount as the caller left it: the call did not assign it
Unset == -1

\* a transport call has returned
Done(op, st, count, retCount, stored, eom, stb) ==
    [op |-> op, pending |-> FALSE, st |-> st, count |-> count,
     retCount |-> retCount, stored |-> stored, eom |-> eom, n |-> 0,
     stb |-> stb, reply |-> Undecoded]

vxi11_open(seed, gpOutcome, port, connOk, clOutcome, error, max_recv_sz) ==
    LET impl0 == [vx EXCEPT !.xid = seed]
        gp == vxi11_getport(impl0, gpOutcome, port)
        impl1 == [gp.impl EXCEPT !.core_port = port]
        cl == vxi11_call([impl1 EXCEPT !.sock = TRUE],
                         VXI11_PROC_CREATE_LINK, 0, 0, clOutcome)
        linked == cl.st = "VI_SUCCESS" /\ error = 0
        toCore == gp.steps \o <<Step("connect", port, connOk, 0)>>
        called == toCore \o <<Step("CREATE_LINK", port, linked,
                                   IF linked THEN max_recv_sz ELSE 0)>>
        dropped == called \o <<Step("close", port, TRUE, 0)>>
    IN  /\ vx.life = "created"
        /\ IF gp.st # "VI_SUCCESS"
           THEN /\ vx' = [gp.impl EXCEPT !.life = "failed",
                                         !.steps = gp.steps]
                /\ wire' = [prev |-> <<>>, msgs |-> gp.msgs]
                /\ res' = Done("open", gp.st, 0, Unset, 0, FALSE, 0)
           ELSE IF ~connOk
           THEN /\ vx' = [impl1 EXCEPT !.life = "failed", !.steps = toCore]
                /\ wire' = [prev |-> <<>>, msgs |-> gp.msgs]
                /\ res' = Done("open", "VI_ERROR_TMO", 0, Unset, 0, FALSE, 0)
           ELSE IF cl.st # "VI_SUCCESS"
           THEN /\ vx' = [cl.impl EXCEPT !.life = "failed", !.sock = FALSE,
                                         !.steps = dropped]
                /\ wire' = [prev |-> <<>>, msgs |-> gp.msgs \o cl.msgs]
                /\ res' = Done("open", cl.st, 0, Unset, 0, FALSE, 0)
           ELSE IF error # 0
           THEN /\ vx' = [cl.impl EXCEPT !.life = "failed", !.sock = FALSE,
                                         !.steps = dropped]
                /\ wire' = [prev |-> <<>>, msgs |-> gp.msgs \o cl.msgs]
                /\ res' = Done("open", "VI_ERROR_CONN_LOST", 0, Unset, 0,
                               FALSE, 0)
           ELSE /\ vx' = [cl.impl EXCEPT
                              !.life = "open", !.lid = 7,
                              !.max_recv_size = IF max_recv_sz # 0
                                                THEN max_recv_sz ELSE 65536,
                              !.steps = called]
                /\ wire' = [prev |-> <<>>, msgs |-> gp.msgs \o cl.msgs]
                /\ res' = Done("open", "VI_SUCCESS", 0, Unset, 0, FALSE, 0)
        /\ UNCHANGED <<regVars, thr, hs, ut, gpib>>

vxi11_close(outcome) ==
    LET cl == vxi11_call(vx, VXI11_PROC_DESTROY_LINK, 0, 0, outcome)
    IN  /\ vx.life \in {"open", "failed"}
        /\ ~res.pending
        /\ IF ~vx.sock
           THEN /\ vx' = [vx EXCEPT !.life = "closed"]
                /\ wire' = NewOp(wire)
           ELSE /\ vx' = [cl.impl EXCEPT !.life = "closed", !.sock = FALSE]
                /\ wire' = [NewOp(wire) EXCEPT !.msgs = cl.msgs]
        /\ res' = Done("close", "VI_SUCCESS", 0, Unset, 0, FALSE, 0)
        /\ UNCHANGED <<regVars, thr, hs, ut, gpib>>

\* vxi11_write up to the first test of the while loop
vxi11_write_enter(count) ==
    /\ vx.life = "open"
    /\ ~res.pending
    /\ vx.calls < MaxCalls
    /\ wire' = NewOp(wire)
    /\ res' = IF ~vx.sock
              THEN Done("write", "VI_ERROR_CONN_LOST", count, Unset, 0,
                        FALSE, 0)
              ELSE IF count = 0
              THEN Done("write", "VI_SUCCESS", count, 0, 0, FALSE, 0)
              ELSE [Done("write", "VI_SUCCESS", count, Unset, 0, FALSE, 0)
                        EXCEPT !.pending = TRUE]
    /\ UNCHANGED <<regVars, thr, vx, hs, ut, gpib>>

\* vxi11_write: one turn of the while loop, and the return when it ends
vxi11_write_chunk(mallocOk, outcome, error, size) ==
    LET count == res.count
        written == res.n
        chunk == Min(count - written, vx.max_recv_size)
        flags == IF written + chunk >= count THEN VXI11_FLAG_END ELSE 0
        c == vxi11_call(vx, VXI11_PROC_DEVICE_WRITE, flags, chunk, outcome)
        written1 == written + size
    IN  /\ res.pending
        /\ res.op = "write"
        /\ IF ~mallocOk
           THEN /\ res' = Done("write", "VI_ERROR_ALLOC", count, Unset, 0,
                               FALSE, 0)
                /\ UNCHANGED <<vx, wire>>
           ELSE /\ vx' = c.impl
                /\ wire' = [wire EXCEPT !.msgs = @ \o c.msgs]
                /\ res' =
                     IF c.st # "VI_SUCCESS"
                     THEN Done("write", c.st, count, Unset, 0, FALSE, 0)
                     ELSE IF error # 0
                     THEN Done("write", "VI_ERROR_IO", count, Unset, 0,
                               FALSE, 0)
                     ELSE IF size = 0 \/ written1 >= count
                     THEN Done("write", "VI_SUCCESS", count, written1, 0,
                               FALSE, 0)
                     ELSE [res EXCEPT !.n = written1]
        /\ UNCHANGED <<regVars, thr, hs, ut, gpib>>

\* vxi11_read up to the first test of the while loop
vxi11_read_enter(count, mallocOk) ==
    /\ vx.life = "open"
    /\ ~res.pending
    /\ vx.calls < MaxCalls
    /\ wire' = NewOp(wire)
    /\ res' = IF ~vx.sock
              THEN Done("read", "VI_ERROR_CONN_LOST", count, Unset, 0, FALSE, 0)
              ELSE IF ~mallocOk
              THEN Done("read", "VI_ERROR_ALLOC", count, Unset, 0, FALSE, 0)
              ELSE IF count = 0
              THEN Done("read", "VI_SUCCESS", count, 0, 0, FALSE, 0)
              ELSE [Done("read", "VI_SUCCESS", count, Unset, 0, FALSE, 0)
                        EXCEPT !.pending = TRUE]
    /\ UNCHANGED <<regVars, thr, vx, hs, ut, gpib>>

\* a plausible slip: a reply shorter than requested does not end the loop
vxi11_read_chunk_short(outcome, error, reason, data_len) ==
    LET count == res.count
        total == res.n
        request_size == Min(count - total, vx.max_recv_size)
        c == vxi11_call(vx, VXI11_PROC_DEVICE_READ, 0, request_size, outcome)
        copy == Min(data_len, count - total)
        total1 == total + data_len
        eom == HasBit(reason, VXI11_REASON_END)
                   \/ HasBit(reason, VXI11_REASON_CHR)
        done == eom \/ HasBit(reason, VXI11_REASON_REQCNT)
        \* the fields of the reply the call decoded: the data only when
        \* the error field is 0
        reply == IF error # 0
                 THEN [error |-> error, reason |-> reason, data_len |-> 0]
                 ELSE [error |-> 0, reason |-> reason, data_len |-> data_len]
    IN  /\ res.pending
        /\ res.op = "read"
        /\ vx' = c.impl
        /\ wire' = [wire EXCEPT !.msgs = @ \o c.msgs]
        /\ res' =
             IF c.st # "VI_SUCCESS"
             THEN Done("read", c.st, count, Unset, res.stored, FALSE, 0)
             ELSE IF error # 0
             THEN [Done("read", "VI_ERROR_IO", count, Unset, res.stored,
                        FALSE, 0) EXCEPT !.reply = reply]
             ELSE IF done \/ total1 >= count
             THEN [Done("read",
                        IF eom THEN "VI_SUCCESS_TERM_CHAR" ELSE "VI_SUCCESS",
                        count, total1, res.stored + copy, eom, 0)
                       EXCEPT !.reply = reply]
             ELSE [res EXCEPT !.n = total1, !.stored = @ + copy,
                              !.reply = reply]
        /\ UNCHANGED <<regVars, thr, hs, ut, gpib>>

\* vxi11_read: one turn of the while loop, and the return when it ends
vxi11_read_chunk(outcome, error, reason, data_len) ==
    LET count == res.count
        total == res.n
        request_size == Min(count - total, vx.max_recv_size)
        c == vxi11_call(vx, VXI11_PROC_DEVICE_READ, 0, request_size, outcome)
        copy == Min(data_len, count - total)
        total1 == total + data_len
        eom == HasBit(reason, VXI11_REASON_END)
                   \/ HasBit(reason, VXI11_REASON_CHR)
        done == eom \/ HasBit(reason, VXI11_REASON_REQCNT)
                    \/ data_len < request_size
        \* the fields of the reply the call decoded: the data only when
        \* the error field is 0
        reply == IF error # 0
                 THEN [error |-> error, reason |-> reason, data_len |-> 0]
                 ELSE [error |-> 0, reason |-> reason, data_len |-> data_len]
    IN  /\ res.pending
        /\ res.op = "read"
        /\ vx' = c.impl
        /\ wire' = [wire EXCEPT !.msgs = @ \o c.msgs]
        /\ res' =
             IF c.st # "VI_SUCCESS"
             THEN Done("read", c.st, count, Unset, res.stored, FALSE, 0)
             ELSE IF error # 0
             THEN [Done("read", "VI_ERROR_IO", count, Unset, res.stored,
                        FALSE, 0) EXCEPT !.reply = reply]
             ELSE IF done \/ total1 >= count
             THEN [Done("read",
                        IF eom THEN "VI_SUCCESS_TERM_CHAR" ELSE "VI_SUCCESS",
                        count, total1, res.stored + copy, eom, 0)
                       EXCEPT !.reply = reply]
             ELSE [res EXCEPT !.n = total1, !.stored = @ + copy,
                              !.reply = reply]
        /\ UNCHANGED <<regVars, thr, hs, ut, gpib>>

vxi11_readSTB(outcome, error, stb) ==
    LET c == vxi11_call(vx, VXI11_PROC_DEVICE_READSTB, 0, 0, outcome)
    IN  /\ vx.life = "open"
        /\ ~res.pending
        /\ vx.calls < MaxCalls
        /\ IF ~vx.sock
           THEN /\ res' = Done("readSTB", "VI_ERROR_CONN_LOST", 0, Unset, 0,
                               FALSE, 0)
                /\ wire' = NewOp(wire)
                /\ UNCHANGED vx
           ELSE /\ vx' = c.impl
                /\ wire' = [NewOp(wire) EXCEPT !.msgs = c.msgs]
                /\ res' =
                     IF c.st # "VI_SUCCESS"
                     THEN Done("readSTB", c.st, 0, Unset, 0, FALSE, 0)
                     ELSE IF error # 0
                     THEN Done("readSTB", "VI_ERROR_IO", 0, Unset, 0, FALSE, 0)
                     ELSE Done("readSTB", "VI_SUCCESS", 0, Unset, 0, FALSE,
                               stb % 256)
        /\ UNCHANGED <<regVars, thr, hs, ut, gpib>>

vxi11_clear(outcome, error) ==
    LET c == vxi11_call(vx, VXI11_PROC_DEVICE_CLEAR, 0, 0, outcome)
    IN  /\ vx.life = "open"
        /\ ~res.pending
        /\ vx.calls < MaxCalls
        /\ IF ~vx.sock
           THEN /\ res' = Done("clear", "VI_ERROR_CONN_LOST", 0, Unset, 0,
                               FALSE, 0)
                /\ wire' = NewOp(wire)
                /\ UNCHANGED vx
           ELSE /\ vx' = c.impl
                /\ wire' = [NewOp(wire) EXCEPT !.msgs = c.msgs]
                /\ res' =
                     IF c.st # "VI_SUCCESS"
                     THEN Done("clear", c.st, 0, Unset, 0, FALSE, 0)
                     ELSE IF error # 0
                     THEN Done("clear", "VI_ERROR_IO", 0, Unset, 0, FALSE, 0)
                     ELSE Done("clear", "VI_SUCCESS", 0, Unset, 0, FALSE, 0)
        /\ UNCHANGED <<regVars, thr, hs, ut, gpib>>

(***************************************************************************)
(* One VXI-11 transport instance from the factory to its close             *)
(***************************************************************************)
\* a transport instance as its factory returns it, untouched registry
TransportInit ==
    /\ RegInit
    /\ thr = [t \in Threads |-> ThreadIdle]
    /\ fn = NoFn
    /\ IoIdle

\* the portmapper answers port 0, 1024 or 65536; CREATE_LINK reports a
\* maxRecvSize of 0, 1 or 2; a device reports status byte 0 or 320
Vxi11Next ==
    \/ \E seed \in Seeds,
          gpOutcome \in (CallOutcomes \ {"alloc"}) \cup {"conn", "send"},
          port \in {0, 1024, 65536}, connOk \in BOOLEAN,
          clOutcome \in CallOutcomes, error \in Errors,
          max_recv_sz \in {0, 1, 2} :
          vxi11_open(seed, gpOutcome, port, connOk, clOutcome, error,
                     max_recv_sz)
    \/ \E outcome \in CallOutcomes : vxi11_close(outcome)
    \/ \E count \in 0..MaxCount : vxi11_write_enter(count)
    \/ \E mallocOk \in BOOLEAN, outcome \in CallOutcomes, error \in Errors,
          size \in 0..MaxPeerLen :
          vxi11_write_chunk(mallocOk, outcome, error, size)
    \/ \E count \in 0..MaxCount, mallocOk \in BOOLEAN :
          vxi11_read_enter(count, mallocOk)
    \/ \E outcome \in CallOutcomes, error \in Errors,
          reason \in {0, VXI11_REASON_REQCNT, VXI11_REASON_CHR,
                      VXI11_REASON_END},
          data_len \in 0..MaxPeerLen :
          vxi11_read_chunk(outcome, error, reason, data_len)
    \/ \E outcome \in CallOutcomes, error \in Errors, stb \in {0, 320} :
          vxi11_readSTB(outcome, error, stb)
    \/ \E outcome \in CallOutcomes, error \in Errors :
          vxi11_clear(outcome, error)

SpecVxi11 == TransportInit /\ [][Vxi11Next]_vars

\* C7: whenever a write of N bytes returns success, the returned
\* written-count equals N, whatever the peer replied
C7_WriteTotality ==
    (res.op = "write" /\ ~res.pending /\ res.st = "VI_SUCCESS")
        => res.retCount = res.count

\* C8: a successful read with capacity max reports read_count <= max and
\* stores at most max bytes in the caller buffer, whatever the device replied
C8_ReadWithinCapacity ==
    (/\ res.op = "read" /\ ~res.pending
     /\ res.st \in {"VI_SUCCESS", "VI_SUCCESS_TERM_CHAR", "VI_SUCCESS_MAX_CNT"})
        => (res.retCount <= res.count /\ res.stored <= res.count)

\* C10: within one VXI-11 transport instance every RPC call carries an xid
\* strictly greater, modulo 2^32, than the xid of the call before it,
\* whether or not that call succeeded
C10_XidIncreasing ==
    LET calls == wire.prev \o wire.msgs
    IN  \A k \in 1..(Len(calls) - 1) :
            After32(calls[k + 1].xid, calls[k].xid)

\* a DEVICE_READ numbered 0 follows a call that failed and was numbered
\* 2^32 - 1
C10_Witness ==
    /\ wire.prev # <<>>
    /\ wire.prev[1].st # "VI_SUCCESS"
    /\ wire.prev[1].xid = <<65535, 65535>>
    /\ wire.msgs # <<>>
    /\ wire.msgs[1].proc = VXI11_PROC_DEVICE_READ
    /\ wire.msgs[1].xid = <<0, 0>>

\* the reply to the latest DEVICE_READ of the read under way or just over,
\* and the requestSize that call carried
ReadReplied ==
    /\ res.op = "read" /\ res.reply # Undecoded /\ wire.msgs # <<>>
    /\ wire.msgs[Len(wire.msgs)].proc = VXI11_PROC_DEVICE_READ
Stops(reply, request_size) ==
    \/ HasBit(reply.reason, VXI11_REASON_END)
    \/ HasBit(reply.reason, VXI11_REASON_REQCNT)
    \/ HasBit(reply.reason, VXI11_REASON_CHR)
    \/ reply.data_len < request_size

\* C32: a read issues DEVICE_READ calls with requestSize = min(remaining,
\* maxRecvSize); it stops after the first reply whose reason has END,
\* REQCNT or CHR set or whose data_len is below requestSize, or when the
\* caller buffer is full; it returns VI_SUCCESS_TERM_CHAR exactly when the
\* last reply had END or CHR set; a reply with nonzero error fails with
\* VI_ERROR_IO.
C32_ReadLoop ==
    ReadReplied
        => LET request_size == wire.msgs[Len(wire.msgs)].size
               total == IF res.pending THEN res.n ELSE res.retCount
               before == total - res.reply.data_len
           IN  IF res.reply.error # 0
               THEN ~res.pending /\ res.st = "VI_ERROR_IO"
               ELSE /\ request_size
                          = Min(res.count - before, vx.max_recv_size)
                    /\ before < res.count
                    /\ res.pending
                          <=> ~(\/ Stops(res.reply, request_size)
                                \/ total >= res.count)
                    /\ ~res.pending
                          => /\ res.st \in {"VI_SUCCESS",
                                             "VI_SUCCESS_TERM_CHAR"}
                             /\ (res.st = "VI_SUCCESS_TERM_CHAR")
                                  <=> (\/ HasBit(res.reply.reason,
                                                 VXI11_REASON_END)
                                       \/ HasBit(res.reply.reason,
                                                 VXI11_REASON_CHR))

\* a second DEVICE_READ was answered with END after a first reply that
\* filled its requestSize and set no reason bit
C32_Witness ==
    /\ ReadReplied /\ ~res.pending /\ Len(wire.msgs) = 2
    /\ res.st = "VI_SUCCESS_TERM_CHAR"
    /\ res.reply.reason = VXI11_REASON_END

\* the steps of a successful vxi11_open, in order
OpenOrder == <<"connect", "GETPORT", "close", "connect", "CREATE_LINK">>

\* ports of the connections that steps opened and did not close
OpenConns(steps) ==
    {steps[i].port : i \in
        {k \in 1..Len(steps) :
            /\ steps[k].do = "connect"
            /\ steps[k].ok
            /\ \A l \in (k + 1)..Len(steps) :
                   ~(steps[l].do = "close"
                         /\ steps[l].port = steps[k].port)}}

\* C33: vxi11_open connects to port 111, calls GETPORT, closes that
\* connection, connects to the returned port and calls CREATE_LINK, in this
\* order; it returns success only when every step succeeded and the port
\* was in 1..65535, and then stores the link id and maxRecvSize (65536 when
\* the device reports 0); when it returns an error, no connection it opened
\* is still open
C33_OpenStepsAndCleanup ==
    (res.op = "open" /\ ~res.pending)
        => LET t == vx.steps
               n == Len(t)
           IN  /\ n \in 1..6
               /\ \A k \in 1..Min(n, 5) : t[k].do = OpenOrder[k]
               /\ \A k \in 1..Min(n, 3) : t[k].port = PORTMAP_PORT
               /\ \A k \in 4..Min(n, 5) : t[k].port = t[2].val
               /\ \A k \in 1..n :
                      (\E l \in (k + 1)..n : t[l].do # "close") => t[k].ok
               /\ n > 3 => t[2].val \in 1..65535
               /\ n = 6 => (t[6].do = "close" /\ t[6].port = t[2].val)
               /\ IF res.st = "VI_SUCCESS"
                  THEN /\ n = 5
                       /\ t[5].ok
                       /\ OpenConns(t) = {t[2].val}
                       /\ vx.sock
                       /\ vx.core_port = t[2].val
                       /\ vx.lid = 7
                       /\ vx.max_recv_size
                              = (IF t[5].val = 0 THEN 65536 ELSE t[5].val)
                  ELSE /\ \/ \E k \in 1..n : ~t[k].ok
                          \/ n = 3 /\ t[2].val \notin 1..65535
                       /\ OpenConns(t) = {}
                       /\ ~vx.sock

\* the core connection was made, CREATE_LINK came back with an error code,
\* and vxi11_open returned
C33_Witness ==
    /\ res.op = "open"
    /\ res.st = "VI_ERROR_CONN_LOST"
    /\ Len(vx.steps) = 6
    /\ vx.steps[4].ok
    /\ vx.steps[4].port = 1024

\* C31: in the DEVICE_WRITE calls of one write of N > 0 bytes every chunk
\* is at most maxRecvSize bytes long and the END flag is set on exactly one
\* call, the last one, whatever the device replied, also when it reports
\* fewer bytes written than the chunk it was sent
C31_EndOnLastChunkOnly ==
    (res.op = "write" /\ ~res.pending /\ res.st = "VI_SUCCESS"
        /\ res.count > 0)
        => /\ wire.msgs # <<>>
           /\ \A k \in 1..Len(wire.msgs) :
                  /\ wire.msgs[k].proc = VXI11_PROC_DEVICE_WRITE
                  /\ wire.msgs[k].size <= vx.max_recv_size
                  /\ (wire.msgs[k].flags = VXI11_FLAG_END)
                         <=> (k = Len(wire.msgs))

(***************************************************************************)
(* HiSLIP transport (tcpip_hislip.c)                                       *)
(***************************************************************************)
HISLIP_DEFAULT_PORT == 4880
HISLIP_MSG_INITIALIZE == 0
HISLIP_MSG_INITIALIZE_RESPONSE == 1
HISLIP_MSG_FATAL_ERROR == 2
HISLIP_MSG_ERROR == 3
HISLIP_MSG_DATA == 6
HISLIP_MSG_DATA_END == 7
HISLIP_MSG_DEVICE_CLEAR_COMPLETE == 8
HISLIP_MSG_DEVICE_CLEAR_ACKNOWLEDGE == 9
HISLIP_MSG_TRIGGER == 12
HISLIP_MSG_ASYNC_INITIALIZE == 17
HISLIP_MSG_ASYNC_INITIALIZE_RESPONSE == 18
HISLIP_MSG_ASYNC_DEVICE_CLEAR == 19
HISLIP_MSG_ASYNC_STATUS_QUERY == 21
HISLIP_MSG_ASYNC_STATUS_RESPONSE == 22
HISLIP_MSG_ASYNC_DEVICE_CLEAR_ACKNOWLEDGE == 23

\* a message sent in full by hislip_send_msg
Sent(chan, type, ctrl, param, len) ==
    [dir |-> "send", chan |-> chan, type |-> type, ctrl |-> ctrl,
     param |-> param, len |-> len, drained |-> len]

\* a header decoded by hislip_recv_header, with the number of payload bytes
\* taken off the channel after it
Received(chan, h, drained) ==
    [dir |-> "recv", chan |-> chan, type |-> h.type, ctrl |-> h.ctrl,
     param |-> h.param, len |-> h.len, drained |-> drained]

\* payload bytes hislip_discard takes off the channel: all of them, or none
\* when the peer stops sending
Discarded(h, len) == IF h.drainOk THEN len ELSE 0

\* what the peer sends next: st is the status of receiving the header,
\* drainOk tells whether the payload bytes to be discarded arrive
Headers(types, ctrls, params, lens) ==
    {h \in [st : {"VI_SUCCESS", "VI_ERROR_TMO"}, type : types, ctrl : ctrls,
             param : params, len : lens, drainOk : BOOLEAN] :
        (h.len = 0 \/ h.st # "VI_SUCCESS") => h.drainOk}

\* TCPIP::h::hislip0 as the parser leaves it
HislipResource ==
    ov_parse_rsrc(kTCPIP \o SEP \o <<"h">> \o SEP \o kHISLIP \o <<"0">>).rsrc

\* statuses of hislip_make_socket: connected, getaddrinfo failed, socket()
\* failed, connect refused, connect timed out
ConnStatuses ==
    {"VI_SUCCESS", "VI_ERROR_RSRC_NFOUND", "VI_ERROR_SYSTEM_ERROR",
     "VI_ERROR_CONN_LOST", "VI_ERROR_TMO"}

\* hislip_make_socket has connected the socket of a channel
Connected(chan) ==
    [dir |-> "connect", chan |-> chan, type |-> -1, ctrl |-> 0,
     param |-> <<0, 0>>, len |-> 0, drained |-> 0]

\* the session id read from the high half of the message parameter
hislip_session_id_high(msg_param) == msg_param[1]

\* (uint16_t)(resp.msg_param & 0xFFFF)
hislip_session_id(msg_param) == msg_param[2]

\* the label fail_sync of hislip_open
fail_sync(impl) ==
    [impl EXCEPT !.sync_sock = FALSE, !.socks = @ \ {"sync"}]

\* fail_async returning without falling through to fail_sync
fail_async_only(impl) ==
    [impl EXCEPT !.async_sock = FALSE, !.socks = @ \ {"async"}]

\* the label fail_async of hislip_open, which falls through to fail_sync
fail_async(impl) ==
    fail_sync([impl EXCEPT !.async_sock = FALSE, !.socks = @ \ {"async"}])

\* syncConn and asyncConn are the statuses of hislip_make_socket, which
\* closes its socket itself when the connect fails
hislip_open(rsrc, syncConn, initSent, r1, asyncConn, asyncSent, r2) ==
    LET port == IF rsrc.port # 0 THEN rsrc.port ELSE HISLIP_DEFAULT_PORT
        sub_len == IF rsrc.deviceName # <<>> THEN Len(rsrc.deviceName)
                   ELSE 7
        impl0 == [hs EXCEPT !.port = port, !.message_id = <<0, 0>>,
                            !.max_msg_size = OV_BUF_SIZE]
        impl1 == [impl0 EXCEPT !.sync_sock = TRUE, !.socks = @ \cup {"sync"}]
        session_id == hislip_session_id(r1.param)
        impl2 == [impl1 EXCEPT !.session_id = session_id]
        impl3 == [impl2 EXCEPT !.async_sock = TRUE,
                               !.socks = @ \cup {"async"}]
        m0 == <<Connected("sync")>>
        m1 == m0 \o <<Sent("sync", HISLIP_MSG_INITIALIZE, 0, <<256, 0>>,
                           sub_len)>>
        m2 == m1 \o <<Received("sync", r1, Discarded(r1, r1.len))>>
        m2c == m2 \o <<Connected("async")>>
        m3 == m2c \o <<Sent("async", HISLIP_MSG_ASYNC_INITIALIZE, 0,
                            <<0, session_id>>, 0)>>
        m4 == m3 \o <<Received("async", r2, Discarded(r2, r2.len))>>
        Fail(impl, st, msgs) ==
            /\ hs' = [impl EXCEPT !.life = "failed"]
            /\ wire' = [prev |-> <<>>, msgs |-> msgs]
            /\ res' = Done("open", st, 0, Unset, 0, FALSE, 0)
    IN  /\ hs.life = "created"
        /\ IF syncConn # "VI_SUCCESS" THEN Fail(impl0, syncConn, <<>>)
           ELSE IF ~initSent THEN Fail(fail_sync(impl1), "VI_ERROR_IO", m0)
           ELSE IF r1.st # "VI_SUCCESS" THEN Fail(fail_sync(impl1), r1.st, m1)
           ELSE IF r1.type # HISLIP_MSG_INITIALIZE_RESPONSE
           THEN Fail(fail_sync(impl1), "VI_ERROR_IO",
                     m1 \o <<Received("sync", r1, 0)>>)
           ELSE IF r1.len > 0 /\ ~r1.drainOk
           THEN Fail(fail_sync(impl2), "VI_ERROR_TMO", m2)
           ELSE IF asyncConn # "VI_SUCCESS"
           THEN Fail(fail_sync(impl2), asyncConn, m2)
           ELSE IF ~asyncSent
           THEN Fail(fail_async(impl3), "VI_ERROR_IO", m2c)
           ELSE IF r2.st # "VI_SUCCESS" THEN Fail(fail_async(impl3), r2.st, m3)
           ELSE IF r2.type # HISLIP_MSG_ASYNC_INITIALIZE_RESPONSE
           THEN Fail(fail_async(impl3), "VI_ERROR_IO",
                     m3 \o <<Received("async", r2, 0)>>)
           ELSE IF r2.len > 0 /\ ~r2.drainOk
           THEN Fail(fail_async(impl3), "VI_ERROR_TMO", m4)
           ELSE /\ hs' = [impl3 EXCEPT !.life = "open"]
                /\ wire' = [prev |-> <<>>, msgs |-> m4]
                /\ res' = Done("open", "VI_SUCCESS", 0, Unset, 0, FALSE, 0)
        /\ UNCHANGED <<regVars, thr, vx, ut, gpib>>

hislip_close ==
    /\ hs.life \in {"open", "failed"}
    /\ ~res.pending
    /\ hs' = [hs EXCEPT !.life = "closed", !.sync_sock = FALSE,
                        !.async_sock = FALSE,
                        !.socks = (@ \ (IF hs.async_sock THEN {"async"}
                                        ELSE {}))
                                    \ (IF hs.sync_sock THEN {"sync"} ELSE {})]
    /\ wire' = [prev |-> <<>>, msgs |-> <<>>]
    /\ res' = Done("close", "VI_SUCCESS", 0, Unset, 0, FALSE, 0)
    /\ UNCHANGED <<regVars, thr, vx, ut, gpib>>

\* the fragments the while loop of hislip_write sends for remaining bytes
RECURSIVE Fragments(_, _, _)
Fragments(remaining, frag_size, id) ==
    IF remaining <= 0 THEN <<>>
    ELSE LET chunk == Min(remaining, frag_size)
             type == IF chunk < remaining THEN HISLIP_MSG_DATA
                     ELSE HISLIP_MSG_DATA_END
         IN  <<Sent("sync", type, 0, id, chunk)>>
                 \o Fragments(remaining - chunk, frag_size, id)

\* the writes of this session as the wire log remembers them: the latest
\* two, each with the message id it used and whether a device clear has
\* completed between it and the write after it
WriteLog(log, id) ==
    LET e == [id |-> id, cleared |-> FALSE]
    IN  IF log = <<>> THEN <<e>> ELSE <<log[Len(log)], e>>

ClearLog(log) ==
    [k \in DOMAIN log |-> IF k = Len(log) THEN [log[k] EXCEPT !.cleared = TRUE]
                          ELSE log[k]]

\* impl->message_id += 2, wrapping at 2^32
next_message_id_one(id) == Add32(id, 1)

next_message_id(id) == Add32(id, 2)

\* byte counts a caller writes: short ones, and one that does not fit in a
\* single message of max_msg_size bytes
WriteCounts == (0..MaxCount) \cup {OV_BUF_SIZE + 1}

\* failAt = 0: every send succeeds; failAt = k: the k-th fragment fails
hislip_write(count, failAt) ==
    LET id == next_message_id(hs.message_id)
        frag_size == IF hs.max_msg_size = 0 THEN OV_BUF_SIZE
                     ELSE hs.max_msg_size
        frags == Fragments(count, frag_size, id)
        failed == failAt # 0 /\ failAt <= Len(frags)
    IN  /\ hs.life = "open"
        /\ ~res.pending
        /\ hs.writes < MaxWrites
        /\ IF ~hs.sync_sock
           THEN /\ res' = Done("write", "VI_ERROR_CONN_LOST", count, Unset, 0,
                               FALSE, 0)
                /\ wire' = [wire EXCEPT !.msgs = <<>>]
                /\ UNCHANGED hs
           ELSE /\ hs' = [hs EXCEPT !.message_id = id, !.writes = @ + 1]
                /\ wire' = [prev |-> WriteLog(wire.prev, id),
                            msgs |-> IF failed
                                     THEN SubSeq(frags, 1, failAt - 1)
                                     ELSE frags]
                /\ res' = IF failed
                          THEN Done("write", "VI_ERROR_IO", count, Unset, 0,
                                    FALSE, 0)
                          ELSE Done("write", "VI_SUCCESS", count, count, 0,
                                    FALSE, 0)
        /\ UNCHANGED <<regVars, thr, vx, ut, gpib>>

\* hislip_read up to the for loop; res.st holds final_status, res.stored
\* holds total, res.n counts the headers received
hislip_read_enter(count) ==
    /\ hs.life = "open"
    /\ ~res.pending
    /\ wire' = [wire EXCEPT !.msgs = <<>>]
    /\ res' = IF ~hs.sync_sock
              THEN Done("read", "VI_ERROR_CONN_LOST", count, Unset, 0, FALSE, 0)
              ELSE [Done("read", "VI_SUCCESS", count, Unset, 0, FALSE, 0)
                        EXCEPT !.pending = TRUE]
    /\ UNCHANGED <<regVars, thr, vx, hs, ut, gpib>>

\* the earliest message of a read whose payload was not all taken off the
\* channel, <<>> when there is none
Undrained(msgs) ==
    LET left == SelectSeq(msgs, LAMBDA m : m.drained < m.len)
    IN  IF left = <<>> THEN <<>> ELSE <<Head(left)>>

\* hislip_read: one turn of the for loop, and the return when it ends.
\* After MaxMsgs headers the peer ends the message or stops sending; the
\* wire keeps the latest header and, before it, the earliest message of
\* this read whose payload was left on the channel.
hislip_read_msg(h, bodyOk) ==
    LET count == res.count
        total == res.stored
        space == count - total
        fits == h.len <= space
        copied == IF fits THEN h.len ELSE space
        final_status == IF fits THEN res.st ELSE "VI_SUCCESS_MAX_CNT"
        Log(drained) ==
            wire' = [wire EXCEPT !.msgs = Undrained(wire.msgs)
                                            \o <<Received("sync", h, drained)>>]
    IN  /\ res.pending
        /\ res.op = "read"
        /\ \/ res.n < MaxMsgs
           \/ h.st # "VI_SUCCESS"
           \/ h.type \in {HISLIP_MSG_DATA_END, HISLIP_MSG_ERROR}
        /\ IF h.st # "VI_SUCCESS"
           THEN /\ res' = Done("read", h.st, count, Unset, total, FALSE, 0)
                /\ UNCHANGED wire
           ELSE IF h.type \in {HISLIP_MSG_FATAL_ERROR, HISLIP_MSG_ERROR}
           THEN /\ res' = Done("read", "VI_ERROR_IO", count, Unset, total,
                               FALSE, 0)
                /\ Log(Discarded(h, h.len))
           ELSE IF h.type \notin {HISLIP_MSG_DATA, HISLIP_MSG_DATA_END}
           THEN /\ res' = [res EXCEPT !.n = @ + 1]
                /\ Log(Discarded(h, h.len))
           ELSE IF ~bodyOk
           THEN /\ res' = Done("read", "VI_ERROR_TMO", count, Unset, total,
                               FALSE, 0)
                /\ Log(0)
           ELSE IF ~fits /\ ~h.drainOk
           THEN /\ res' = Done("read", "VI_ERROR_TMO", count, Unset,
                               total + copied, FALSE, 0)
                /\ Log(copied)
           ELSE IF h.type = HISLIP_MSG_DATA_END
           THEN /\ res' = Done("read", final_status, count, total + copied,
                               total + copied, TRUE, 0)
                /\ Log(h.len)
           ELSE /\ res' = [res EXCEPT !.n = @ + 1, !.st = final_status,
                                      !.stored = total + copied]
                /\ Log(h.len)
        /\ UNCHANGED <<regVars, thr, vx, hs, ut, gpib>>

\* the status byte taken from the message parameter of the response
hislip_stb_param(resp) == resp.param[2]

\* *status = (ViUInt16)resp.control_code
hislip_stb(resp) == resp.ctrl

hislip_readSTB(sendOk, h) ==
    LET q == <<Sent("async", HISLIP_MSG_ASYNC_STATUS_QUERY, 0,
                    hs.message_id, 0)>>
    IN  /\ hs.life = "open"
        /\ ~res.pending
        /\ IF ~hs.async_sock
           THEN /\ res' = Done("readSTB", "VI_ERROR_CONN_LOST", 0, Unset, 0,
                               FALSE, 0)
                /\ wire' = [wire EXCEPT !.msgs = <<>>]
           ELSE IF ~sendOk
           THEN /\ res' = Done("readSTB", "VI_ERROR_IO", 0, Unset, 0, FALSE, 0)
                /\ wire' = [wire EXCEPT !.msgs = <<>>]
           ELSE IF h.st # "VI_SUCCESS"
           THEN /\ res' = Done("readSTB", h.st, 0, Unset, 0, FALSE, 0)
                /\ wire' = [wire EXCEPT !.msgs = q]
           ELSE IF h.type # HISLIP_MSG_ASYNC_STATUS_RESPONSE
           THEN /\ res' = Done("readSTB", "VI_ERROR_IO", 0, Unset, 0, FALSE, 0)
                /\ wire' = [wire EXCEPT
                                !.msgs = q \o <<Received("async", h, 0)>>]
           ELSE /\ res' = Done("readSTB", "VI_SUCCESS", 0, Unset, 0, FALSE,
                               hislip_stb(h))
                /\ wire' = [wire EXCEPT
                                !.msgs = q \o <<Received("async", h,
                                                         Discarded(h, h.len))>>]
        /\ UNCHANGED <<regVars, thr, vx, hs, ut, gpib>>

\* a plausible slip: the message id is reset before the acknowledge is sent
hislip_clear_early(clearSent, a, c, ackSent) ==
    LET m1 == <<Sent("async", HISLIP_MSG_ASYNC_DEVICE_CLEAR, 0, <<0, 0>>, 0)>>
        m2 == m1 \o <<Received("async", a, Discarded(a, a.len))>>
        m3 == m2 \o <<Received("sync", c, Discarded(c, c.len))>>
        m4 == m3 \o <<Sent("sync", HISLIP_MSG_DEVICE_CLEAR_ACKNOWLEDGE,
                           c.ctrl, <<0, 0>>, 0)>>
        Ret(st, msgs) ==
            /\ res' = Done("clear", st, 0, Unset, 0, FALSE, 0)
            /\ wire' = [prev |-> IF st = "VI_SUCCESS"
                                 THEN ClearLog(wire.prev) ELSE wire.prev,
                        msgs |-> msgs]
    IN  /\ hs.life = "open"
        /\ ~res.pending
        /\ IF ~hs.async_sock \/ ~hs.sync_sock
           THEN Ret("VI_ERROR_CONN_LOST", <<>>) /\ UNCHANGED hs
           ELSE IF ~clearSent THEN Ret("VI_ERROR_IO", <<>>) /\ UNCHANGED hs
           ELSE IF a.st # "VI_SUCCESS" THEN Ret(a.st, m1) /\ UNCHANGED hs
           ELSE IF a.type # HISLIP_MSG_ASYNC_DEVICE_CLEAR_ACKNOWLEDGE
           THEN Ret("VI_ERROR_IO", m2) /\ UNCHANGED hs
           ELSE IF c.st # "VI_SUCCESS" THEN Ret(c.st, m2) /\ UNCHANGED hs
           ELSE IF c.type # HISLIP_MSG_DEVICE_CLEAR_COMPLETE
           THEN Ret("VI_ERROR_IO", m3) /\ UNCHANGED hs
           ELSE IF ~ackSent
           THEN /\ Ret("VI_ERROR_IO", m3)
                /\ hs' = [hs EXCEPT !.message_id = <<0, 0>>]
           ELSE /\ Ret("VI_SUCCESS", m4)
                /\ hs' = [hs EXCEPT !.message_id = <<0, 0>>]
        /\ UNCHANGED <<regVars, thr, vx, ut, gpib>>

\* hislip_clear: the four steps of a device clear; a step that fails ends
\* the call, and only the last line resets the message id
hislip_clear(clearSent, a, c, ackSent) ==
    LET m1 == <<Sent("async", HISLIP_MSG_ASYNC_DEVICE_CLEAR, 0, <<0, 0>>, 0)>>
        m2 == m1 \o <<Received("async", a, Discarded(a, a.len))>>
        m3 == m2 \o <<Received("sync", c, Discarded(c, c.len))>>
        m4 == m3 \o <<Sent("sync", HISLIP_MSG_DEVICE_CLEAR_ACKNOWLEDGE,
                           c.ctrl, <<0, 0>>, 0)>>
        Ret(st, msgs) ==
            /\ res' = Done("clear", st, 0, Unset, 0, FALSE, 0)
            /\ wire' = [prev |-> IF st = "VI_SUCCESS"
                                 THEN ClearLog(wire.prev) ELSE wire.prev,
                        msgs |-> msgs]
    IN  /\ hs.life = "open"
        /\ ~res.pending
        /\ IF ~hs.async_sock \/ ~hs.sync_sock
           THEN Ret("VI_ERROR_CONN_LOST", <<>>) /\ UNCHANGED hs
           ELSE IF ~clearSent THEN Ret("VI_ERROR_IO", <<>>) /\ UNCHANGED hs
           ELSE IF a.st # "VI_SUCCESS" THEN Ret(a.st, m1) /\ UNCHANGED hs
           ELSE IF a.type # HISLIP_MSG_ASYNC_DEVICE_CLEAR_ACKNOWLEDGE
           THEN Ret("VI_ERROR_IO", m2) /\ UNCHANGED hs
           ELSE IF c.st # "VI_SUCCESS" THEN Ret(c.st, m2) /\ UNCHANGED hs
           ELSE IF c.type # HISLIP_MSG_DEVICE_CLEAR_COMPLETE
           THEN Ret("VI_ERROR_IO", m3) /\ UNCHANGED hs
           ELSE IF ~ackSent THEN Ret("VI_ERROR_IO", m3) /\ UNCHANGED hs
           ELSE /\ Ret("VI_SUCCESS", m4)
                /\ hs' = [hs EXCEPT !.message_id = <<0, 0>>]
        /\ UNCHANGED <<regVars, thr, vx, ut, gpib>>

(***************************************************************************)
(* One HiSLIP transport instance from the factory to its close             *)
(***************************************************************************)
\* during a read the peer sends Data and DataEnd fragments of 0..MaxPeerLen
\* bytes and messages of other types with 0 or 1 payload bytes
HislipNext ==
    \/ /\ hs.life = "created"
       /\ \E syncConn \in ConnStatuses, initSent \in BOOLEAN,
          asyncConn \in ConnStatuses, asyncSent \in BOOLEAN,
          r1 \in Headers({HISLIP_MSG_INITIALIZE_RESPONSE,
                          HISLIP_MSG_FATAL_ERROR,
                          HISLIP_MSG_ASYNC_INITIALIZE_RESPONSE},
                         {0}, {<<256, 5>>, <<257, 65535>>}, {0, 2}),
          r2 \in Headers({HISLIP_MSG_INITIALIZE_RESPONSE,
                          HISLIP_MSG_FATAL_ERROR,
                          HISLIP_MSG_ASYNC_INITIALIZE_RESPONSE},
                         {0}, {<<256, 5>>}, {0, 2}) :
          hislip_open(HislipResource, syncConn, initSent, r1, asyncConn,
                      asyncSent, r2)
    \/ hislip_close
    \/ \E count \in WriteCounts, failAt \in 0..2 : hislip_write(count, failAt)
    \/ \E count \in 0..MaxCount : hislip_read_enter(count)
    \/ \E bodyOk \in BOOLEAN,
          h \in Headers({HISLIP_MSG_DATA, HISLIP_MSG_DATA_END},
                        {0}, {<<0, 0>>}, 0..MaxPeerLen)
                \cup Headers({HISLIP_MSG_ERROR, HISLIP_MSG_TRIGGER},
                             {0}, {<<0, 0>>}, {0, 1}) :
          hislip_read_msg(h, bodyOk)
    \/ \E sendOk \in BOOLEAN,
          h \in Headers({HISLIP_MSG_ASYNC_STATUS_RESPONSE, HISLIP_MSG_ERROR},
                        {0, 80}, {<<0, 0>>}, {0, 1}) :
          hislip_readSTB(sendOk, h)
    \/ \E clearSent \in BOOLEAN, ackSent \in BOOLEAN,
          a \in Headers({HISLIP_MSG_ASYNC_DEVICE_CLEAR_ACKNOWLEDGE,
                         HISLIP_MSG_ERROR}, {0}, {<<0, 0>>}, {0}),
          c \in Headers({HISLIP_MSG_DEVICE_CLEAR_COMPLETE, HISLIP_MSG_ERROR},
                        {0, 1}, {<<0, 0>>}, {0, 1}) :
          hislip_clear(clearSent, a, c, ackSent)

SpecHislip == TransportInit /\ [][HislipNext]_vars

\* C9: a read that ends because the device signalled end-of-message (here
\* HiSLIP DataEnd) returns the status VI_SUCCESS_TERM_CHAR
C9_EomGivesTermChar ==
    (res.op = "read" /\ ~res.pending /\ res.eom)
        => res.st = "VI_SUCCESS_TERM_CHAR"

\* C11 as stated: whatever operations lie between them, the ids of two
\* successive writes differ by exactly 2 modulo 2^32, and the first write
\* after open carries id 2.
C11_WriteIdsDifferByTwo ==
    /\ (hs.writes = 1 /\ Len(wire.prev) = 1) => wire.prev[1].id = <<0, 2>>
    /\ Len(wire.prev) = 2
          => Sub32(wire.prev[2].id, wire.prev[1].id) = <<0, 2>>

\* C11 amended: the ids of two successive writes differ by exactly 2 modulo
\* 2^32 unless a device clear completed between them; the first write after
\* open and the first write after a completed clear carry id 2.
C11_WriteIdsDifferByTwoUnlessCleared ==
    /\ (hs.writes = 1 /\ Len(wire.prev) = 1) => wire.prev[1].id = <<0, 2>>
    /\ Len(wire.prev) = 2
          => IF wire.prev[1].cleared
             THEN wire.prev[2].id = <<0, 2>>
             ELSE Sub32(wire.prev[2].id, wire.prev[1].id) = <<0, 2>>

\* two successive writes with no clear between them, the second carrying
\* id 4, and a status query answered after them
C11_Witness ==
    /\ Len(wire.prev) = 2 /\ ~wire.prev[1].cleared
    /\ wire.prev[2].id = <<0, 4>>
    /\ res.op = "readSTB" /\ res.st = "VI_SUCCESS"


\* the messages of the wire log, without the connects
Exchanged(log) == SelectSeq(log, LAMBDA x : x.dir # "connect")

\* C14: a successful open exchanges exactly four messages, in this order:
\* Initialize sent on sync, InitializeResponse received on sync,
\* AsyncInitialize with the session id from the low 16 bits of the
\* response's parameter sent on async, AsyncInitializeResponse received on
\* async; the async channel is connected only after InitializeResponse.
C14_OpenHandshake ==
    (res.op = "open" /\ res.st = "VI_SUCCESS" /\ hs.life = "open")
        => LET m == Exchanged(wire.msgs)
           IN  /\ Len(m) = 4
               /\ m[1].dir = "send" /\ m[1].chan = "sync"
               /\ m[1].type = HISLIP_MSG_INITIALIZE
               /\ m[2].dir = "recv" /\ m[2].chan = "sync"
               /\ m[2].type = HISLIP_MSG_INITIALIZE_RESPONSE
               /\ m[3].dir = "send" /\ m[3].chan = "async"
               /\ m[3].type = HISLIP_MSG_ASYNC_INITIALIZE
               /\ m[3].param = <<0, m[2].param[2]>>
               /\ m[4].dir = "recv" /\ m[4].chan = "async"
               /\ m[4].type = HISLIP_MSG_ASYNC_INITIALIZE_RESPONSE
               /\ \A k \in DOMAIN wire.msgs :
                     wire.msgs[k] = Connected("async")
                         => \E j \in 1..(k - 1) :
                               /\ wire.msgs[j].dir = "recv"
                               /\ wire.msgs[j].type
                                      = HISLIP_MSG_INITIALIZE_RESPONSE

\* an open that succeeded with the session id 65535 from a response whose
\* parameter carries version 1.1 in its upper half
C14_Witness ==
    /\ res.op = "open" /\ res.st = "VI_SUCCESS" /\ hs.life = "open"
    /\ hs.session_id = 65535
    /\ Len(wire.msgs) = 6

\* C15: when a step of open fails, open returns an error status and leaves
\* no socket of the call open: both channel sockets are closed and marked
\* invalid; the status is the one of the failing step (the connect's own
\* status, VI_ERROR_IO for an Error, FatalError or unexpected reply).
C15_OpenFailureClosesSockets ==
    (res.op = "open" /\ hs.life = "failed")
        => /\ res.st # "VI_SUCCESS"
           /\ hs.socks = {}
           /\ ~hs.sync_sock /\ ~hs.async_sock
           /\ wire.msgs = <<>> => res.st \in ConnStatuses
           /\ (/\ wire.msgs # <<>>
               /\ wire.msgs[Len(wire.msgs)].dir = "recv"
               /\ wire.msgs[Len(wire.msgs)].type
                      \in {HISLIP_MSG_FATAL_ERROR, HISLIP_MSG_ERROR})
                 => res.st = "VI_ERROR_IO"

\* the open failed after the async channel had been connected
C15_Witness ==
    /\ res.op = "open" /\ hs.life = "failed"
    /\ \E k \in DOMAIN wire.msgs : wire.msgs[k] = Connected("async")
    /\ wire.msgs[Len(wire.msgs)].type = HISLIP_MSG_FATAL_ERROR

\* C16: a read_status that immediately follows a successful clear sends
\* exactly one AsyncStatusQuery on the async channel, without Initialize or
\* AsyncInitialize, and on receiving AsyncStatusResponse returns success
\* with the status byte of the response's control code.
C16_StatusAfterClear ==
    [][(/\ res.op = "clear" /\ res.st = "VI_SUCCESS"
        /\ res'.op = "readSTB")
          => LET m == wire'.msgs
                 sent == SelectSeq(m, LAMBDA x : x.dir = "send")
             IN  /\ Len(sent) <= 1
                 /\ Len(sent) = 0 => res'.st = "VI_ERROR_IO" /\ m = <<>>
                 /\ \A k \in DOMAIN sent :
                       /\ sent[k].type = HISLIP_MSG_ASYNC_STATUS_QUERY
                       /\ sent[k].chan = "async"
                 /\ \A k \in DOMAIN m : m[k].dir # "connect"
                 /\ (/\ Len(m) = 2
                     /\ m[2].dir = "recv"
                     /\ m[2].type = HISLIP_MSG_ASYNC_STATUS_RESPONSE)
                       => /\ res'.st = "VI_SUCCESS"
                          /\ res'.stb = m[2].ctrl]_vars

\* a status byte of 80 returned while the message id stands at 0 after a
\* write: a clear has completed and no write has followed it
C16_Witness ==
    /\ res.op = "readSTB" /\ res.st = "VI_SUCCESS" /\ res.stb = 80
    /\ hs.writes > 0 /\ hs.message_id = <<0, 0>>
    /\ wire.prev # <<>> /\ wire.prev[Len(wire.prev)].cleared
    /\ Len(wire.msgs) = 2

\* the payload lengths of msgs added up
RECURSIVE PayloadSum(_)
PayloadSum(msgs) ==
    IF msgs = <<>> THEN 0 ELSE Head(msgs).len + PayloadSum(Tail(msgs))

\* C34: a successful hislip_write of N bytes has put on the sync channel
\* zero or more Data messages and then exactly one DataEnd message, all
\* with the message id of this write, each payload at most max_msg_size
\* bytes long, the payloads being the N bytes of the buffer in order
C34_WriteFragments ==
    (res.op = "write" /\ ~res.pending /\ res.st = "VI_SUCCESS")
        => LET n == Len(wire.msgs)
           IN  /\ n >= 1
               /\ \A k \in 1..n :
                      /\ wire.msgs[k].dir = "send"
                      /\ wire.msgs[k].chan = "sync"
                      /\ wire.msgs[k].type = (IF k = n THEN HISLIP_MSG_DATA_END
                                              ELSE HISLIP_MSG_DATA)
                      /\ wire.msgs[k].param = hs.message_id
                      /\ wire.msgs[k].len <= hs.max_msg_size
               /\ PayloadSum(wire.msgs) = res.count

\* C35: a Data or DataEnd fragment larger than the space left in the buffer
\* has the part that fits copied and ends the read with VI_SUCCESS_MAX_CNT,
\* and whenever hislip_read returns a success status every message it took
\* from the sync channel, skipped ones included, was drained completely, so
\* that the channel stands at the start of the next header
C35_ReadDrainsEveryMessage ==
    (res.op = "read" /\ ~res.pending
         /\ res.st \in {"VI_SUCCESS", "VI_SUCCESS_MAX_CNT"})
        => /\ wire.msgs # <<>>
           /\ \A k \in 1..Len(wire.msgs) :
                  wire.msgs[k].drained = wire.msgs[k].len
           /\ wire.msgs[Len(wire.msgs)].type = HISLIP_MSG_DATA_END
           /\ res.retCount = res.stored
           /\ res.stored <= res.count
           /\ res.st = "VI_SUCCESS_MAX_CNT" => res.stored = res.count

\* C36: a successful hislip_clear has sent AsyncDeviceClear on the async
\* channel, received AsyncDeviceClearAcknowledge on it, received
\* DeviceClearComplete on the sync channel and sent DeviceClearAcknowledge
\* on it with the control code of the DeviceClearComplete, in this order
\* and nothing else, and leaves the message id at 0; a clear that fails has
\* done a prefix of these steps and leaves the message id as it was
C36_ClearSteps ==
    [][res'.op = "clear"
          => LET m == wire'.msgs
                 n == Len(m)
             IN  /\ n <= 4
                 /\ n >= 1 => /\ m[1].dir = "send" /\ m[1].chan = "async"
                              /\ m[1].type = HISLIP_MSG_ASYNC_DEVICE_CLEAR
                 /\ n >= 2 => m[2].dir = "recv" /\ m[2].chan = "async"
                 /\ n >= 3
                       => /\ m[2].type
                                = HISLIP_MSG_ASYNC_DEVICE_CLEAR_ACKNOWLEDGE
                          /\ m[3].dir = "recv" /\ m[3].chan = "sync"
                 /\ n = 4
                       => /\ m[3].type = HISLIP_MSG_DEVICE_CLEAR_COMPLETE
                          /\ m[4].dir = "send" /\ m[4].chan = "sync"
                          /\ m[4].type = HISLIP_MSG_DEVICE_CLEAR_ACKNOWLEDGE
                          /\ m[4].ctrl = m[3].ctrl
                 /\ IF res'.st = "VI_SUCCESS"
                    THEN n = 4 /\ hs'.message_id = <<0, 0>>
                    ELSE n < 4 /\ hs'.message_id = hs.message_id]_vars

\* a clear that succeeded after a write, acknowledging feature flags 1
C36_Witness ==
    /\ res.op = "clear" /\ res.st = "VI_SUCCESS"
    /\ hs.writes > 0 /\ hs.message_id = <<0, 0>>
    /\ Len(wire.msgs) = 4
    /\ wire.msgs[3].ctrl = 1 /\ wire.msgs[4].ctrl = 1

(***************************************************************************)
(* USBTMC transport (libusb build)                                         *)
(***************************************************************************)
USBTMC_MSGID_DEV_DEP_MSG_OUT == 1

USBTMC_MSGID_REQUEST_DEV_DEP_MSG_IN == 2

USBTMC_MSGID_DEV_DEP_MSG_IN == 2

USBTMC_TRANSFER_EOM == 1

USBTMC_REQ_INITIATE_CLEAR == 5

USB488_REQ_READ_STATUS_BYTE == 128

USBTMC_STATUS_SUCCESS == 1

USBTMC_STATUS_PENDING == 2

USBTMC_STATUS_FAILED == 128

USBTMC_HEADER_SIZE == 12

USBTMC_CLEAR_TIMEOUT_MS == 5000

USBTMC_CLEAR_POLL_MS == 200

\* (uint8_t)(~b)
Not8(b) == 255 - b

\* x & mask for a one-bit mask
And8(x, mask) == IF HasBit(x, mask) THEN mask ELSE 0

usbtmc_put32le(val) ==
    <<val % 256, (val \div 256) % 256, (val \div 65536) % 256,
      (val \div 16777216) % 256>>

usbtmc_get32le(src) ==
    src[1] + src[2] * 256 + src[3] * 65536 + src[4] * 16777216

\* impl->bTag++ on a uint8_t without the skip of the reserved value
usbtmc_next_tag_wrap0(bTag) == (bTag + 1) % 256

\* impl->bTag++ on a uint8_t; 0 is skipped
usbtmc_next_tag(bTag) ==
    LET t == (bTag + 1) % 256
    IN  IF t = 0 THEN 1 ELSE t

\* the header with the two's complement of the tag at offset 2
usbtmc_build_header_neg(msgid, tag, transfer_size, attributes, term_char) ==
    <<msgid, tag, (256 - tag) % 256, 0>> \o usbtmc_put32le(transfer_size)
        \o <<attributes, term_char, 0, 0>>

\* the 12 bytes of a UsbtmcHeader, offset k at index k + 1
usbtmc_build_header(msgid, tag, transfer_size, attributes, term_char) ==
    <<msgid, tag, Not8(tag), 0>> \o usbtmc_put32le(transfer_size)
        \o <<attributes, term_char, 0, 0>>

\* the tags of the latest two requests of this transport
TagLog(log, tag) == IF log = <<>> THEN <<tag>> ELSE <<log[Len(log)], tag>>

BulkOut(hdr, len) == [kind |-> "bulk_out", hdr |-> hdr, len |-> len]

BulkIn(hdr, len) == [kind |-> "bulk_in", hdr |-> hdr, len |-> len]

Control(bRequest, wValue) ==
    [kind |-> "control", hdr |-> <<bRequest, wValue>>, len |-> 0]

\* caps: what GET_CAPABILITIES returns (rc bytes, buf[4], buf[5])
usbtmc_open(initOk, listOk, found, claimOk, caps) ==
    LET Ret(impl, st) ==
            /\ ut' = [impl EXCEPT !.life = IF st = "VI_SUCCESS" THEN "open"
                                           ELSE "failed"]
            /\ res' = Done("open", st, 0, Unset, 0, FALSE, 0)
        impl1 == [ut EXCEPT !.ctx = TRUE, !.dev = TRUE, !.bTag = 0]
        impl2 == IF caps.rc >= 6
                 THEN [impl1 EXCEPT !.usb488_if = And8(caps.b4, 4),
                                    !.ren_control = And8(caps.b4, 2),
                                    !.read_stb_cap = And8(caps.b5, 4),
                                    !.trigger = And8(caps.b5, 1)]
                 ELSE impl1
    IN  /\ ut.libusb
        /\ ut.life = "created"
        /\ IF ~initOk THEN Ret(ut, "VI_ERROR_SYSTEM_ERROR")
           ELSE IF ~listOk THEN Ret(ut, "VI_ERROR_SYSTEM_ERROR")
           ELSE IF ~found THEN Ret(ut, "VI_ERROR_RSRC_NFOUND")
           ELSE IF ~claimOk
           THEN Ret([impl1 EXCEPT !.dev = FALSE, !.ctx = FALSE],
                    "VI_ERROR_RSRC_LOCKED")
           ELSE Ret(impl2, "VI_SUCCESS")
        /\ wire' = NoWire
        /\ UNCHANGED <<regVars, thr, vx, hs, gpib>>

usbtmc_close ==
    /\ ut.libusb
    /\ ut.life \in {"open", "failed"}
    /\ ut' = [ut EXCEPT !.life = "closed", !.dev = FALSE, !.ctx = FALSE]
    /\ wire' = NoWire
    /\ res' = Done("close", "VI_SUCCESS", 0, Unset, 0, FALSE, 0)
    /\ UNCHANGED <<regVars, thr, vx, hs, gpib>>

\* transferred: the bytes libusb reports as sent
usbtmc_write(count, mallocOk, sendOk, transferred) ==
    LET padded == ((count + 3) \div 4) * 4
        total == USBTMC_HEADER_SIZE + padded
        tag == usbtmc_next_tag(ut.bTag)
        hdr == usbtmc_build_header(USBTMC_MSGID_DEV_DEP_MSG_OUT, tag, count,
                                   USBTMC_TRANSFER_EOM, 0)
        payload_sent == IF transferred > USBTMC_HEADER_SIZE
                        THEN transferred - USBTMC_HEADER_SIZE ELSE 0
    IN  /\ ut.libusb
        /\ ut.life = "open"
        /\ transferred <= total
        /\ IF ~ut.dev
           THEN /\ res' = Done("write", "VI_ERROR_CONN_LOST", count, Unset, 0,
                               FALSE, 0)
                /\ wire' = [wire EXCEPT !.msgs = <<>>]
                /\ UNCHANGED ut
           ELSE IF ~mallocOk
           THEN /\ res' = Done("write", "VI_ERROR_ALLOC", count, Unset, 0,
                               FALSE, 0)
                /\ wire' = [wire EXCEPT !.msgs = <<>>]
                /\ UNCHANGED ut
           ELSE /\ ut' = [ut EXCEPT !.bTag = tag]
                /\ wire' = [prev |-> TagLog(wire.prev, tag),
                            msgs |-> IF sendOk THEN <<BulkOut(hdr, total)>>
                                     ELSE <<>>]
                /\ res' = IF ~sendOk
                          THEN Done("write", "VI_ERROR_IO", count, Unset, 0,
                                    FALSE, 0)
                          ELSE Done("write", "VI_SUCCESS", count,
                                    Min(payload_sent, count), 0, FALSE, 0)
        /\ UNCHANGED <<regVars, thr, vx, hs, gpib>>

\* the sanity checks with the comparison of bTagInverse left out
usbtmc_reply_ok_tag_only(resp_hdr, tag) ==
    /\ resp_hdr[1] = USBTMC_MSGID_DEV_DEP_MSG_IN
    /\ resp_hdr[2] = tag

\* the sanity checks of usbtmc_read on the reply header
usbtmc_reply_ok(resp_hdr, tag) ==
    /\ resp_hdr[1] = USBTMC_MSGID_DEV_DEP_MSG_IN
    /\ resp_hdr[2] = tag
    /\ resp_hdr[3] = Not8(tag)

\* reply: what the bulk-IN transfer delivers.  rc is libusb's result,
\* recv_len the bytes received, hdr the first 12 of them
usbtmc_read(count, sendOk, mallocOk, reply) ==
    LET tag == usbtmc_next_tag(ut.bTag)
        req == usbtmc_build_header(USBTMC_MSGID_REQUEST_DEV_DEP_MSG_IN, tag,
                                   count, 0, 0)
        recv_max == USBTMC_HEADER_SIZE + count
        resp_hdr == reply.hdr
        data_len == usbtmc_get32le(SubSeq(resp_hdr, 5, 8))
        eom == HasBit(resp_hdr[9], USBTMC_TRANSFER_EOM)
        available == IF reply.recv_len - USBTMC_HEADER_SIZE < 0 THEN 0
                     ELSE reply.recv_len - USBTMC_HEADER_SIZE
        copy_len == Min(Min(available, count), data_len)
        Ret(st, retCount, stored, e, msgs) ==
            /\ res' = Done("read", st, count, retCount, stored, e, 0)
            /\ wire' = [prev |-> TagLog(wire.prev, tag), msgs |-> msgs]
        sent == <<BulkOut(req, USBTMC_HEADER_SIZE)>>
        got == sent \o <<BulkIn(resp_hdr, reply.recv_len)>>
    IN  /\ ut.libusb
        /\ ut.life = "open"
        /\ reply.recv_len <= recv_max
        /\ IF ~ut.dev
           THEN /\ res' = Done("read", "VI_ERROR_CONN_LOST", count, Unset, 0,
                               FALSE, 0)
                /\ wire' = [wire EXCEPT !.msgs = <<>>]
                /\ UNCHANGED ut
           ELSE /\ ut' = [ut EXCEPT !.bTag = tag]
                /\ IF ~sendOk THEN Ret("VI_ERROR_IO", Unset, 0, FALSE, <<>>)
                   ELSE IF ~mallocOk
                   THEN Ret("VI_ERROR_ALLOC", Unset, 0, FALSE, sent)
                   ELSE IF reply.rc = "timeout"
                   THEN Ret("VI_ERROR_TMO", Unset, 0, FALSE, sent)
                   ELSE IF reply.rc = "error"
                   THEN Ret("VI_ERROR_IO", Unset, 0, FALSE, sent)
                   ELSE IF reply.recv_len < USBTMC_HEADER_SIZE
                   THEN Ret("VI_ERROR_IO", Unset, 0, FALSE, sent)
                   ELSE IF ~usbtmc_reply_ok(resp_hdr, tag)
                   THEN Ret("VI_ERROR_IO", Unset, 0, FALSE, got)
                   ELSE Ret(IF eom THEN "VI_SUCCESS_TERM_CHAR"
                            ELSE "VI_SUCCESS", copy_len, copy_len, eom, got)
        /\ UNCHANGED <<regVars, thr, vx, hs, gpib>>

\* rc: the result of the control transfer, resp: the three bytes of resp[]
usbtmc_readSTB(rc, resp) ==
    LET tag == usbtmc_next_tag(ut.bTag)
        Ret(st, stb) == res' = Done("readSTB", st, 0, Unset, 0, FALSE, stb)
    IN  /\ ut.libusb
        /\ ut.life = "open"
        /\ IF ~ut.dev
           THEN /\ Ret("VI_ERROR_CONN_LOST", 0)
                /\ wire' = [wire EXCEPT !.msgs = <<>>]
                /\ UNCHANGED ut
           ELSE /\ ut' = [ut EXCEPT !.bTag = tag]
                /\ wire' = [prev |-> TagLog(wire.prev, tag),
                            msgs |-> <<Control(USB488_REQ_READ_STATUS_BYTE,
                                               tag)>>]
                /\ IF rc < 0 THEN Ret("VI_ERROR_IO", 0)
                   ELSE IF resp[1] # USBTMC_STATUS_SUCCESS
                   THEN Ret("VI_ERROR_IO", 0)
                   ELSE IF rc >= 3 THEN Ret("VI_SUCCESS", resp[3])
                   ELSE IF rc = 2 THEN Ret("VI_SUCCESS", resp[2])
                   ELSE Ret("VI_ERROR_IO", 0)
        /\ UNCHANGED <<regVars, thr, vx, hs, gpib>>

\* the polling loop of usbtmc_clear: the device answers PENDING pendings
\* times and then with final (a status byte, or -1 for a failed transfer)
RECURSIVE usbtmc_clear_poll(_, _, _)
usbtmc_clear_poll(elapsed_ms, pendings, final) ==
    IF elapsed_ms >= USBTMC_CLEAR_TIMEOUT_MS THEN "VI_ERROR_TMO"
    ELSE IF pendings > 0
    THEN usbtmc_clear_poll(elapsed_ms + USBTMC_CLEAR_POLL_MS, pendings - 1,
                           final)
    ELSE IF final < 0 THEN "VI_ERROR_IO"
    ELSE IF final = USBTMC_STATUS_SUCCESS THEN "VI_SUCCESS"
    ELSE "VI_ERROR_IO"

usbtmc_clear(initiateOk, pendings, final) ==
    /\ ut.libusb
    /\ ut.life = "open"
    /\ res' = Done("clear",
                   IF ~ut.dev THEN "VI_ERROR_CONN_LOST"
                   ELSE IF ~initiateOk THEN "VI_ERROR_IO"
                   ELSE usbtmc_clear_poll(0, pendings, final),
                   0, Unset, 0, FALSE, 0)
    /\ wire' = [wire EXCEPT
                    !.msgs = IF ut.dev
                             THEN <<Control(USBTMC_REQ_INITIATE_CLEAR, 0)>>
                             ELSE <<>>]
    /\ UNCHANGED <<regVars, thr, vx, hs, ut, gpib>>

\* nothing arrives on the bulk-IN pipe
NoReply ==
    [rc |-> "timeout", recv_len |-> 0,
     hdr |-> <<0, 0, 0, 0, 0, 0, 0, 0, 0, 0, 0, 0>>]

\* bulk-IN replies to a read request with the given tag: a well-formed
\* DEV_DEP_MSG_IN, replies with a wrong MsgID, a wrong tag, a corrupted
\* complement, and the reply to the request before (its tag, its complement)
UsbReplies(count, bTag) ==
    LET tag == usbtmc_next_tag(bTag)
        Hdr(msgid, t, inv, size, attrs) ==
            <<msgid, t, inv, 0>> \o usbtmc_put32le(size) \o <<attrs, 0, 0, 0>>
        good == {[rc |-> IF size > count THEN "overflow" ELSE "ok",
                  recv_len |-> USBTMC_HEADER_SIZE + n,
                  hdr |-> Hdr(USBTMC_MSGID_DEV_DEP_MSG_IN, tag, Not8(tag),
                              size, attrs)] :
                    n \in 0..count, size \in {0, MaxPeerLen},
                    attrs \in {0, 1}}
        bad == {[rc |-> "ok", recv_len |-> USBTMC_HEADER_SIZE + count,
                 hdr |-> Hdr(h[1], h[2], h[3], count, 1)] :
                    h \in {<<USBTMC_MSGID_DEV_DEP_MSG_OUT, tag, Not8(tag)>>,
                           <<USBTMC_MSGID_DEV_DEP_MSG_IN, bTag, Not8(tag)>>,
                           <<USBTMC_MSGID_DEV_DEP_MSG_IN, tag, Not8(bTag)>>,
                           <<USBTMC_MSGID_DEV_DEP_MSG_IN, tag,
                             (256 - tag) % 256>>,
                           <<USBTMC_MSGID_DEV_DEP_MSG_IN, bTag, Not8(bTag)>>}}
        none == {[NoReply EXCEPT !.rc = rc] :
                    rc \in {"timeout", "error", "ok"}}
    IN  good \cup bad \cup none

UsbtmcNext ==
    \/ \E initOk \in BOOLEAN, listOk \in BOOLEAN, found \in BOOLEAN,
          claimOk \in BOOLEAN,
          caps \in {[rc |-> -1, b4 |-> 0, b5 |-> 0],
                    [rc |-> 6, b4 |-> 6, b5 |-> 5]} :
          usbtmc_open(initOk, listOk, found, claimOk, caps)
    \/ usbtmc_close
    \/ \E count \in 0..MaxCount :
          \/ usbtmc_write(count, FALSE, TRUE, 0)
          \/ usbtmc_write(count, TRUE, FALSE, 0)
          \/ \E transferred \in {0, 13, 16} :
                usbtmc_write(count, TRUE, TRUE, transferred)
    \/ \E count \in 0..MaxCount :
          \/ usbtmc_read(count, FALSE, TRUE, NoReply)
          \/ usbtmc_read(count, TRUE, FALSE, NoReply)
          \/ \E reply \in UsbReplies(count, ut.bTag) :
                usbtmc_read(count, TRUE, TRUE, reply)
    \/ \E rc \in {-1, 1, 2, 3}, resp \in {<<1, 80, 0>>, <<1, 7, 80>>,
                                          <<128, 0, 0>>} :
          usbtmc_readSTB(rc, resp)
    \/ \E initiateOk \in BOOLEAN, pendings \in {0, 1, 25},
          final \in {-1, USBTMC_STATUS_SUCCESS, USBTMC_STATUS_FAILED} :
          usbtmc_clear(initiateOk, pendings, final)

SpecUsbtmc == TransportInit /\ [][UsbtmcNext]_vars

(***************************************************************************)
(* usbtmc_clear, one pass of its polling loop at a time                    *)
(***************************************************************************)
\* the call as it is entered: elapsed_ms of the function's locals, the
\* CHECK_CLEAR_STATUS requests made so far, rc and resp[0], resp[1] of the
\* latest one, the bulk-IN reads made to drop stale data; st is the status
\* returned once done
ClearCall(dev) ==
    [name |-> "usbtmc_clear", dev |-> dev, pc |-> "initiate",
     elapsed_ms |-> 0, polls |-> 0, rc |-> 0, resp |-> <<0, 0>>,
     drops |-> 0, done |-> FALSE, st |-> "VI_SUCCESS"]

ClearReturn(c, st) == [c EXCEPT !.done = TRUE, !.st = st]

\* the code after the loop
usbtmc_clear_exit(c) ==
    IF c.elapsed_ms >= USBTMC_CLEAR_TIMEOUT_MS
    THEN ClearReturn(c, "VI_ERROR_TMO")
    ELSE ClearReturn(c, "VI_SUCCESS")

\* a plausible slip: the loop runs while elapsed_ms <= the timeout
usbtmc_clear_pass_late(c, rc, resp) ==
    LET polled == [c EXCEPT !.polls = @ + 1, !.rc = rc, !.resp = resp]
    IN  IF ~(c.elapsed_ms <= USBTMC_CLEAR_TIMEOUT_MS)
        THEN usbtmc_clear_exit(c)
        ELSE IF rc < 1 THEN ClearReturn(polled, "VI_ERROR_IO")
        ELSE IF resp[1] = USBTMC_STATUS_SUCCESS THEN usbtmc_clear_exit(polled)
        ELSE IF resp[1] # USBTMC_STATUS_PENDING
        THEN ClearReturn(polled, "VI_ERROR_IO")
        ELSE [polled EXCEPT
                 !.drops = IF rc >= 2 /\ resp[2] % 2 = 1 THEN @ + 1 ELSE @,
                 !.elapsed_ms = @ + USBTMC_CLEAR_POLL_MS]

\* one evaluation of the loop condition and, when it holds, of the body:
\* rc bytes of resp came back from CHECK_CLEAR_STATUS
usbtmc_clear_pass(c, rc, resp) ==
    LET polled == [c EXCEPT !.polls = @ + 1, !.rc = rc, !.resp = resp]
    IN  IF ~(c.elapsed_ms < USBTMC_CLEAR_TIMEOUT_MS)
        THEN usbtmc_clear_exit(c)
        ELSE IF rc < 1 THEN ClearReturn(polled, "VI_ERROR_IO")
        ELSE IF resp[1] = USBTMC_STATUS_SUCCESS THEN usbtmc_clear_exit(polled)
        ELSE IF resp[1] # USBTMC_STATUS_PENDING
        THEN ClearReturn(polled, "VI_ERROR_IO")
        ELSE [polled EXCEPT
                 !.drops = IF rc >= 2 /\ resp[2] % 2 = 1 THEN @ + 1 ELSE @,
                 !.elapsed_ms = @ + USBTMC_CLEAR_POLL_MS]

\* usbtmc_clear up to the loop: rc is what INITIATE_CLEAR returned
usbtmc_clear_initiate(rc) ==
    /\ fn.name = "usbtmc_clear"
    /\ ~fn.done
    /\ fn.pc = "initiate"
    /\ fn' = IF ~fn.dev THEN ClearReturn(fn, "VI_ERROR_CONN_LOST")
             ELSE IF rc < 0 THEN ClearReturn(fn, "VI_ERROR_IO")
             ELSE [fn EXCEPT !.pc = "poll"]
    /\ UNCHANGED <<initialized, sessions, findLists, nextHandle,
                   transports, ret, issued, closedH, thr, vx, hs, ut,
                   gpib, wire, res>>

usbtmc_clear_loop(rc, resp) ==
    /\ fn.name = "usbtmc_clear"
    /\ ~fn.done
    /\ fn.pc = "poll"
    /\ fn' = usbtmc_clear_pass(fn, rc, resp)
    /\ UNCHANGED <<initialized, sessions, findLists, nextHandle,
                   transports, ret, issued, closedH, thr, vx, hs, ut,
                   gpib, wire, res>>

\* the call on a transport with and without an open device
ClearInit ==
    /\ RegInit
    /\ thr = [t \in Threads |-> ThreadIdle]
    /\ IoIdle
    /\ \E dev \in BOOLEAN : fn = ClearCall(dev)

\* what a device answers to CHECK_CLEAR_STATUS: nothing, one byte, or two
\* bytes of which the second is bmClear
ClearNext ==
    \/ \E rc \in {0 - 1, 0} : usbtmc_clear_initiate(rc)
    \/ \E rc \in {0 - 1, 1, 2},
          resp \in {USBTMC_STATUS_SUCCESS, USBTMC_STATUS_PENDING,
                    USBTMC_STATUS_FAILED, 0} \X {0, 1} :
          usbtmc_clear_loop(rc, resp)

\* the function runs on: libusb_control_transfer returns within its 2000 ms
\* and the loop is not suspended forever
SpecClear == ClearInit /\ [][ClearNext]_vars /\ WF_vars(ClearNext)

\* the call has returned st
ClearReturned(st) == fn.name = "usbtmc_clear" /\ fn.done /\ fn.st = st

\* C37: after INITIATE_CLEAR usbtmc_clear polls CHECK_CLEAR_STATUS and
\* returns VI_SUCCESS at the first status SUCCESS, VI_ERROR_IO at the first
\* status that is neither SUCCESS nor PENDING, and VI_ERROR_TMO once the
\* status was PENDING at 25 polls, 5000 ms at 200 ms a poll; it never polls
\* more than 25 times and returns whatever the device answers
C37_ClearPolling ==
    /\ [](/\ fn.polls <= USBTMC_CLEAR_TIMEOUT_MS \div USBTMC_CLEAR_POLL_MS
          /\ ~fn.done => fn.elapsed_ms = USBTMC_CLEAR_POLL_MS * fn.polls)
    /\ [](ClearReturned("VI_SUCCESS")
             => /\ fn.polls \in 1..25
                /\ fn.rc >= 1
                /\ fn.resp[1] = USBTMC_STATUS_SUCCESS)
    /\ []((fn.done /\ fn.polls > 0 /\ fn.rc >= 1
              /\ fn.resp[1] \notin {USBTMC_STATUS_SUCCESS,
                                    USBTMC_STATUS_PENDING})
             => fn.st = "VI_ERROR_IO")
    /\ [](ClearReturned("VI_ERROR_TMO")
             => /\ fn.polls = 25
                /\ fn.elapsed_ms = USBTMC_CLEAR_TIMEOUT_MS
                /\ fn.rc >= 1
                /\ fn.resp[1] = USBTMC_STATUS_PENDING)
    /\ <>fn.done

\* the status was PENDING at 24 polls and SUCCESS at the 25th
C37_Witness ==
    /\ ClearReturned("VI_SUCCESS")
    /\ fn.polls = 25
    /\ fn.elapsed_ms = 4800

\* the bits of a byte, as masks
Bits8 == {1, 2, 4, 8, 16, 32, 64, 128}

\* C12: in every bulk-OUT header sent, the tag at offset 1 is nonzero and
\* the byte at offset 2 is its bitwise complement, also after the 8-bit tag
\* counter has wrapped.
C12_TagValid ==
    \A k \in DOMAIN wire.msgs :
        wire.msgs[k].kind = "bulk_out"
            => /\ wire.msgs[k].hdr[2] \in 1..255
               /\ \A b \in Bits8 :
                     HasBit(wire.msgs[k].hdr[3], b)
                         # HasBit(wire.msgs[k].hdr[2], b)

\* the write whose header carries tag 1 after the request with tag 255
C12_Witness ==
    /\ wire.prev = <<255, 1>>
    /\ res.op = "write" /\ res.st = "VI_SUCCESS"
    /\ wire.msgs # <<>> /\ wire.msgs[1].kind = "bulk_out"
    /\ wire.msgs[1].hdr[2] = 1

\* C13: each write, read request and status read uses the tag that follows
\* the previous request's tag in the cycle 1, 2, ..., 255, 1, ...; the tag
\* is advanced before it is used and the first request after open uses 1.
C13_TagCycle ==
    /\ Len(wire.prev) = 1 => wire.prev[1] = 1
    /\ Len(wire.prev) = 2
          => wire.prev[2] = IF wire.prev[1] = 255 THEN 1
                            ELSE wire.prev[1] + 1
    /\ wire.prev # <<>> => ut.bTag = wire.prev[Len(wire.prev)]
    /\ \A k \in DOMAIN wire.msgs :
          /\ wire.msgs[k].kind = "bulk_out"
                => wire.msgs[k].hdr[2] = ut.bTag
          /\ (/\ wire.msgs[k].kind = "control"
              /\ wire.msgs[k].hdr[1] = USB488_REQ_READ_STATUS_BYTE)
                => wire.msgs[k].hdr[2] = ut.bTag

\* a status read that uses tag 1 right after a request with tag 255
C13_Witness ==
    /\ wire.prev = <<255, 1>>
    /\ res.op = "readSTB"
    /\ wire.msgs = <<Control(USB488_REQ_READ_STATUS_BYTE, 1)>>

\* C17: a read whose bulk-IN reply header does not carry the request's tag
\* at offset 1 and that tag's bitwise complement at offset 2 fails with
\* VI_ERROR_IO and copies nothing into the caller's buffer.
C17_TagEchoChecked ==
    (/\ res.op = "read"
     /\ Len(wire.msgs) = 2
     /\ \/ wire.msgs[2].hdr[2] # wire.msgs[1].hdr[2]
        \/ \E b \in Bits8 :
              HasBit(wire.msgs[2].hdr[3], b) = HasBit(wire.msgs[1].hdr[2], b))
        => /\ res.st = "VI_ERROR_IO"
           /\ res.stored = 0
           /\ res.retCount = Unset

\* the reply echoes the tag of the request but not its complement
C17_Witness ==
    /\ res.op = "read" /\ Len(wire.msgs) = 2
    /\ wire.msgs[2].hdr[1] = USBTMC_MSGID_DEV_DEP_MSG_IN
    /\ wire.msgs[2].hdr[2] = wire.msgs[1].hdr[2]
    /\ wire.msgs[2].hdr[3] # Not8(wire.msgs[1].hdr[2])
    /\ res.st = "VI_ERROR_IO"

(***************************************************************************)
(* GPIB transport and the USBTMC stubs (native libraries loaded or not)    *)
(***************************************************************************)
GPIB_TIMO == 16384

ETMO == 11

\* the ERR bit of ibsta
GPIB_ERR == 32768

\* the END bit of ibsta
GPIB_END == 512

\* what the library leaves behind after a call: its return value and the
\* ibsta, iberr and ibcntl it set
LibCall(rc, ibsta, iberr, ibcntl) ==
    [rc |-> rc, ibsta |-> ibsta, iberr |-> iberr, ibcntl |-> ibcntl]

gpib_map_status(call) ==
    IF call.rc < 0 THEN "VI_ERROR_SYSTEM_ERROR"
    ELSE IF HasBit(call.ibsta, GPIB_TIMO) /\ call.iberr = ETMO
    THEN "VI_ERROR_TMO"
    ELSE IF HasBit(call.ibsta, GPIB_ERR) THEN "VI_ERROR_IO"
    ELSE "VI_SUCCESS"

\* ud: the descriptor ibdev returns; ibsta: the status it leaves
gpib_open(intfNum, gpibAddr, gpibSecAddr, ud, ibsta) ==
    /\ IF ~gpib.lib
       THEN /\ res' = Done("open", "VI_ERROR_NSUP_OPER", 0, Unset, 0,
                           FALSE, 0)
            /\ UNCHANGED gpib
       ELSE /\ gpib.ud < 0
            /\ gpib' = [gpib EXCEPT !.board = intfNum, !.pad = gpibAddr,
                                    !.sad = gpibSecAddr, !.ud = ud,
                                    !.life = "open"]
            /\ res' = IF ud < 0 \/ HasBit(ibsta, GPIB_ERR)
                      THEN Done("open", "VI_ERROR_RSRC_NFOUND", 0, Unset, 0,
                                FALSE, 0)
                      ELSE Done("open", "VI_SUCCESS", 0, Unset, 0, FALSE, 0)
    /\ UNCHANGED <<regVars, thr, vx, hs, ut, wire>>

gpib_close ==
    /\ IF ~gpib.lib
       THEN UNCHANGED gpib
       ELSE gpib' = [gpib EXCEPT !.ud = -1, !.life = "closed"]
    /\ res' = Done("close", "VI_SUCCESS", 0, Unset, 0, FALSE, 0)
    /\ UNCHANGED <<regVars, thr, vx, hs, ut, wire>>

gpib_write(count, call) ==
    LET st == gpib_map_status(call)
    IN  /\ res' =
             IF ~gpib.lib
             THEN Done("write", "VI_ERROR_NSUP_OPER", count, Unset, 0,
                       FALSE, 0)
             ELSE IF gpib.ud < 0
             THEN Done("write", "VI_ERROR_CONN_LOST", count, Unset, 0,
                       FALSE, 0)
             ELSE Done("write", st, count,
                       IF st = "VI_SUCCESS" THEN call.ibcntl ELSE 0, 0,
                       FALSE, 0)
        /\ UNCHANGED <<regVars, thr, vx, hs, ut, gpib, wire>>

gpib_read(count, call) ==
    LET st == gpib_map_status(call)
        end == st = "VI_SUCCESS" /\ HasBit(call.ibsta, GPIB_END)
    IN  /\ res' =
             IF ~gpib.lib
             THEN Done("read", "VI_ERROR_NSUP_OPER", count, Unset, 0,
                       FALSE, 0)
             ELSE IF gpib.ud < 0
             THEN Done("read", "VI_ERROR_CONN_LOST", count, Unset, 0,
                       FALSE, 0)
             ELSE Done("read",
                       IF end THEN "VI_SUCCESS_TERM_CHAR" ELSE st, count,
                       IF st \in {"VI_SUCCESS", "VI_SUCCESS_TERM_CHAR"}
                       THEN call.ibcntl ELSE 0,
                       IF call.rc < 0 THEN 0 ELSE call.ibcntl, end, 0)
        /\ UNCHANGED <<regVars, thr, vx, hs, ut, gpib, wire>>

\* spr: the serial poll response byte
gpib_readSTB(call, spr) ==
    LET st == gpib_map_status(call)
    IN  /\ res' =
             IF ~gpib.lib
             THEN Done("readSTB", "VI_ERROR_NSUP_OPER", 0, Unset, 0,
                       FALSE, 0)
             ELSE IF gpib.ud < 0
             THEN Done("readSTB", "VI_ERROR_CONN_LOST", 0, Unset, 0,
                       FALSE, 0)
             ELSE IF st # "VI_SUCCESS"
             THEN Done("readSTB", st, 0, Unset, 0, FALSE, 0)
             ELSE Done("readSTB", "VI_SUCCESS", 0, Unset, 0, FALSE, spr)
        /\ UNCHANGED <<regVars, thr, vx, hs, ut, gpib, wire>>

gpib_clear(call) ==
    /\ res' =
         IF ~gpib.lib
         THEN Done("clear", "VI_ERROR_NSUP_OPER", 0, Unset, 0, FALSE, 0)
         ELSE IF gpib.ud < 0
         THEN Done("clear", "VI_ERROR_CONN_LOST", 0, Unset, 0, FALSE, 0)
         ELSE Done("clear", gpib_map_status(call), 0, Unset, 0, FALSE, 0)
    /\ UNCHANGED <<regVars, thr, vx, hs, ut, gpib, wire>>

\* the six operations of the USBTMC transport built without libusb
usbtmc_stub(op, count) ==
    /\ ~ut.libusb
    /\ res' = Done(op, "VI_ERROR_NSUP_OPER", count, Unset, 0, FALSE, 0)
    /\ UNCHANGED <<regVars, thr, vx, hs, ut, gpib, wire>>

usbtmc_stub_open == usbtmc_stub("open", 0)

usbtmc_stub_close == usbtmc_stub("close", 0)

usbtmc_stub_write(count) == usbtmc_stub("write", count)

usbtmc_stub_read(count) == usbtmc_stub("read", count)

usbtmc_stub_readSTB == usbtmc_stub("readSTB", 0)

usbtmc_stub_clear == usbtmc_stub("clear", 0)

\* the build has no libusb; dlopen of the GPIB library succeeds or not
NativeInit ==
    /\ RegInit
    /\ thr = [t \in Threads |-> ThreadIdle]
    /\ fn = NoFn
    /\ vx = ov_transport_tcpip_vxi11_create
    /\ hs = ov_transport_tcpip_hislip_create
    /\ ut = ov_transport_usbtmc_create(FALSE)
    /\ \E lib \in BOOLEAN : gpib = ov_transport_gpib_create(lib)
    /\ wire = NoWire
    /\ res = NoRes

\* a library call fails outright, times out, reports an error, ends on EOI
\* or plainly succeeds, having moved 0..MaxPeerLen bytes
LibCalls ==
    {LibCall(rc, ibsta, iberr, ibcntl) :
        rc \in {-1, 0}, ibsta \in {0, GPIB_TIMO + GPIB_ERR, GPIB_ERR,
                                   GPIB_END},
        iberr \in {0, ETMO}, ibcntl \in 0..MaxPeerLen}

NativeNext ==
    \/ \E intfNum \in {0, 1}, gpibAddr \in {1, 5}, gpibSecAddr \in {-1, 2},
          ud \in {-1, 0, 3}, ibsta \in {0, GPIB_ERR} :
          gpib_open(intfNum, gpibAddr, gpibSecAddr, ud, ibsta)
    \/ gpib_close
    \/ \E count \in 0..MaxCount, call \in LibCalls : gpib_write(count, call)
    \/ \E count \in 0..MaxCount, call \in LibCalls : gpib_read(count, call)
    \/ \E call \in LibCalls, spr \in {0, 80} : gpib_readSTB(call, spr)
    \/ \E call \in LibCalls : gpib_clear(call)
    \/ usbtmc_stub_open
    \/ usbtmc_stub_close
    \/ \E count \in 0..MaxCount : usbtmc_stub_write(count)
    \/ \E count \in 0..MaxCount : usbtmc_stub_read(count)
    \/ usbtmc_stub_readSTB
    \/ usbtmc_stub_clear

SpecNative == NativeInit /\ [][NativeNext]_vars

\* C19: when the native library of the GPIB or the USB transport is absent,
\* each of the six operations of that transport returns VI_ERROR_NSUP_OPER,
\* in every state and on every call (here libusb is absent throughout, so
\* with the GPIB library absent too every operation is one of such a
\* transport).
C19_AbsentIsNotSupported ==
    (~gpib.lib /\ ~ut.libusb /\ res.op # "none")
        => res.st = "VI_ERROR_NSUP_OPER"

(***************************************************************************)
(* The statuses the transports return                                      *)
(***************************************************************************)
\* the thirteen kinds of the error taxonomy, by their VISA names
ErrorTaxonomy ==
    {"VI_SUCCESS", "VI_SUCCESS_TERM_CHAR", "VI_SUCCESS_MAX_CNT",
     "VI_ERROR_INV_OBJECT", "VI_ERROR_INV_RSRC_NAME", "VI_ERROR_RSRC_NFOUND",
     "VI_ERROR_RSRC_LOCKED", "VI_ERROR_TMO", "VI_ERROR_IO",
     "VI_ERROR_CONN_LOST", "VI_ERROR_ALLOC", "VI_ERROR_NSUP_OPER",
     "VI_ERROR_NSUP_ATTR"}

\* C18: every status returned by an operation of a transport (open, close,
\* read, write, read_status, clear) is one of the thirteen kinds of the
\* error taxonomy.
C18_StatusInTaxonomy ==
    res.op \in {"open", "close", "read", "write", "readSTB", "clear"}
        => res.st \in ErrorTaxonomy

=============================================================================
